---- MODULE Spec2Model ----
(***************************************************************************)
(* State actor of jira-ticket-fetch (src/src/state.rs): the task that owns *)
(* the application State, takes events from the unbounded event bus one at *)
(* a time, applies the modal key handler or the completion handler, spawns *)
(* fetch tasks and publishes a clone of the State on the bounded snapshot   *)
(* channel read by the rendering loop (src/src/ui.rs).                      *)
(*                                                                         *)
(* Strings are sequences of one-character strings, Option<usize> is a       *)
(* sequence of length at most one (<<>> is None, <<i>> is Some(i)), list    *)
(* indices are 0-based as in the source.                                    *)
(***************************************************************************)
EXTENDS Integers, Sequences, FiniteSets, TLC

VARIABLES
    state,      \* the State owned by the actor task (state.rs:149-158)
    pc,         \* position of the actor task: "recv", "send", "done", "panicked"
    bus,        \* the unbounded event channel, oldest first (events.rs:14-15)
    chan,       \* the bounded snapshot channel, oldest first (state.rs:27)
    tasks,      \* the spawned fetch tasks that have not finished
    disk,       \* the config file as last written by save_config
    drawn,      \* history: the snapshots the rendering loop has drawn, oldest first
    nextId,     \* history: number of tasks spawned so far
    keysSent,   \* history: number of key events the input task has sent
    committed,  \* history: number of events committed to the bus
    applied,    \* history: ordinals of the events the actor has taken, in order
    pubs,       \* history: number of snapshots published on the channel
    typed,      \* history: the text typed since Editing mode was last entered
    branchesFrom, \* history: the last BranchesUpdated event the actor applied
    ended,      \* history: how each finished fetch task ended
    last        \* history: the actor's last step (event, State before, tasks spawned)

vars == <<state, pc, bus, chan, tasks, disk, drawn, nextId, keysSent,
          committed, applied, pubs, typed, branchesFrom, ended, last>>

(***************************************************************************)
(* Bounds of the model.                                                    *)
(***************************************************************************)
\* key events the input task sends in a run of the navigation specification
MaxKeys == 3
\* key events of a run of the editing specification
MaxEditKeys == 4
\* key events of a run of the refetch specification
MaxRefetchKeys == 2
\* key events of a run of the modes specification
MaxModeKeys == 4
\* key events of a run of the channel specification
MaxBurst == 21
\* key events of a run of the fetch specification
MaxFetchKeys == 4
\* key events of a run of the filter specification
MaxFilterKeys == 3
\* key events of a run of the view specification
MaxViewKeys == 2
\* key events of a run of the cursor specification
MaxCursorKeys == 3
\* key events of a run of the project specification
MaxProjectKeys == 4
\* key events of a run of the escape specification
MaxEscapeKeys == 4
\* key events of a run of the open specification
MaxOpenKeys == 4
\* key events of a run of the parameters specification
MaxParamKeys == 2
\* key events of a run of the transitions specification
MaxTransitionKeys == 3
MaxQuitKeys == 3
MaxApplyKeys == 3

(***************************************************************************)
(* Program constants.                                                      *)
(***************************************************************************)
SnapshotCapacity == 20

\* "Create New", the name of the sentinel branch (state.rs:73, state.rs:266)
CreateNew == <<"C", "r", "e", "a", "t", "e", " ", "N", "e", "w">>

\* "unhandled-error", the fallback of new_branch_name (state.rs:212)
UnhandledError == <<"u", "n", "h", "a", "n", "d", "l", "e", "d", "-",
                    "e", "r", "r", "o", "r">>

InputModes == {"IssuesList", "BoardsList", "Editing", "UpdateIssueStatus",
               "EditingDefaultProject"}

(***************************************************************************)
(* Option<T>                                                               *)
(***************************************************************************)
None == <<>>
Some(x) == <<x>>
IsSome(o) == o # <<>>
Unwrap(o) == o[1]

(***************************************************************************)
(* StatefulList<T> (utils.rs, not part of the available sources): an       *)
(* ordered sequence with an optional cursor, as the specification of the   *)
(* selection list describes it.                                            *)
(***************************************************************************)
ListNew == [items |-> <<>>, sel |-> None]

\* with_items: the given items, no cursor yet
WithItems(items) == [items |-> items, sel |-> None]

\* next(): no-op on an empty sequence, index 0 from an absent cursor,
\* index 0 from the last index (or beyond), else the following index
ListNext(l) ==
    IF Len(l.items) = 0 THEN l
    ELSE IF l.sel = None THEN [l EXCEPT !.sel = Some(0)]
    ELSE IF Unwrap(l.sel) >= Len(l.items) - 1 THEN [l EXCEPT !.sel = Some(0)]
    ELSE [l EXCEPT !.sel = Some(Unwrap(l.sel) + 1)]

\* previous(): no-op on an empty sequence, index 0 from an absent cursor,
\* the last index from index 0, else the preceding index
ListPrevious(l) ==
    IF Len(l.items) = 0 THEN l
    ELSE IF l.sel = None THEN [l EXCEPT !.sel = Some(0)]
    ELSE IF Unwrap(l.sel) = 0 THEN [l EXCEPT !.sel = Some(Len(l.items) - 1)]
    ELSE [l EXCEPT !.sel = Some(Unwrap(l.sel) - 1)]

\* unselect(): the cursor becomes absent, the items stay
ListUnselect(l) == [l EXCEPT !.sel = None]

\* items[i] of a Vec: defined only for i < len (Rust panics otherwise)
InRange(l) == IsSome(l.sel) /\ Unwrap(l.sel) < Len(l.items)
ItemAt(l) == l.items[Unwrap(l.sel) + 1]

(***************************************************************************)
(* The data the collaborators can deliver.                                 *)
(***************************************************************************)
KeyA == <<"A", "-", "1">>
KeyB == <<"B", "-", "2">>

Issue1 == [key |-> KeyA, summary |-> <<"s", "1">>, permalink |-> <<"u", "1">>]
Issue2 == [key |-> KeyB, summary |-> <<"s", "2">>, permalink |-> <<"u", "2">>]
IssueLists == {<<>>, <<Issue1>>, <<Issue1, Issue2>>}

Board1 == [key |-> 1, name |-> <<"b", "1">>, permalink |-> <<"v", "1">>]
Board2 == [key |-> 2, name |-> <<"b", "2">>, permalink |-> <<"v", "2">>]
BoardLists == {<<>>, <<Board1>>, <<Board1, Board2>>}

Transition1 == [key |-> <<"1", "1">>, name |-> <<"D", "o">>]
Transition2 == [key |-> <<"2", "1">>, name |-> <<"O", "k">>]
TransitionLists == {<<>>, <<Transition1>>, <<Transition1, Transition2>>}

\* the local branches of the repository at the time of a lookup
FullRepo == << <<"A", "-", "1", "-", "x">>, <<"B", "-", "2", "-", "y">>,
               <<"m", "a", "i", "n">>, <<"A", "-", "1", "-", "z">> >>
Repos == {<<>>, FullRepo}

\* the characters a Char key can carry
Chars == {"b", "c", "i", "m", "o", "p", "q", "r", "s", "x"}
CharKey(c) == [kind |-> "Char", c |-> c]
Key(kind) == [kind |-> kind, c |-> ""]
NoKey == Key("")
AllKeys == {CharKey(c) : c \in Chars}
             \cup {Key(k) : k \in {"Enter", "Left", "Right", "Up", "Down",
                                   "Esc", "Backspace", "Tab"}}

DefaultConfig == [default_project_key |-> <<>>,
                  filter_in_progress |-> TRUE,
                  filter_mine |-> TRUE]
\* what load_config can return: the defaults or a stored configuration
StoredConfig == [default_project_key |-> <<"O">>,
                 filter_in_progress |-> FALSE,
                 filter_mine |-> TRUE]
LoadableConfigs == {DefaultConfig, StoredConfig}

(***************************************************************************)
(* git.rs                                                                  *)
(***************************************************************************)
StartsWith(s, p) == Len(p) <= Len(s) /\ SubSeq(s, 1, Len(p)) = p

BranchSummary(name) == [name |-> name]

\* matching_branches: the local branches whose name starts with branch_name,
\* in the repository's order
NameMatches(name, branch_name) == StartsWith(name, branch_name)

RECURSIVE matching_branches(_, _)
matching_branches(repo, branch_name) ==
    IF repo = <<>> THEN <<>>
    ELSE (IF NameMatches(Head(repo), branch_name)
          THEN <<BranchSummary(Head(repo))>> ELSE <<>>)
         \o matching_branches(Tail(repo), branch_name)

(***************************************************************************)
(* jira.rs: the JQL query of current_issues (jira.rs:25-43).               *)
(***************************************************************************)
\* "assignee=currentuser()"
AssigneeClause ==
    <<"a", "s", "s", "i", "g", "n", "e", "e", "=", "c", "u", "r", "r",
      "e", "n", "t", "u", "s", "e", "r", "(", ")">>

\* "status=3" (In Progress)
InProgressClause ==
    <<"s", "t", "a", "t", "u", "s", "=", "3">>

\* "status=\"Prioritised\""
PrioritisedClause ==
    <<"s", "t", "a", "t", "u", "s", "=", "\"", "P", "r", "i", "o", "r",
      "i", "t", "i", "s", "e", "d", "\"">>

\* format!("project = \"{}\"", key)
ProjectClause(key) ==
    <<"p", "r", "o", "j", "e", "c", "t", " ", "=", " ", "\"">>
    \o key \o <<"\"">>

\* " AND "
AndSep == <<" ", "A", "N", "D", " ">>

\* Vec<String>::join
RECURSIVE Join(_, _)
Join(parts, sep) ==
    IF parts = <<>> THEN <<>>
    ELSE IF Len(parts) = 1 THEN parts[1]
    ELSE parts[1] \o sep \o Join(Tail(parts), sep)

\* faulty variant of query_parts: the status clause is pushed only for the
\* in-progress filter
query_parts_StatusOnlyInProgress(config) ==
    (IF config.filter_mine THEN <<AssigneeClause>> ELSE <<>>)
    \o (IF config.filter_in_progress THEN <<InProgressClause>> ELSE <<>>)
    \o (IF config.default_project_key # <<>>
        THEN <<ProjectClause(config.default_project_key)>> ELSE <<>>)

\* the clauses pushed, in order
query_parts(config) ==
    (IF config.filter_mine THEN <<AssigneeClause>> ELSE <<>>)
    \o (IF config.filter_in_progress
        THEN <<InProgressClause>> ELSE <<PrioritisedClause>>)
    \o (IF config.default_project_key # <<>>
        THEN <<ProjectClause(config.default_project_key)>> ELSE <<>>)

current_issues_query(config) == Join(query_parts(config), AndSep)

(***************************************************************************)
(* State (state.rs:139-215)                                                *)
(***************************************************************************)
StateNew(config) ==
    [issues |-> ListNew,
     boards |-> ListNew,
     branches |-> ListNew,
     transitions |-> ListNew,
     issues_focused |-> TRUE,
     input_mode |-> "IssuesList",
     input |-> <<>>,
     config |-> config]

\* uses items.get(i): None when the index is out of range
selected_issue_key(st) ==
    IF InRange(st.issues) THEN Some(ItemAt(st.issues).key) ELSE None

\* the three accessors below index items[i] directly: they panic when the
\* cursor is present and out of range
IndexPanics(l) == IsSome(l.sel) /\ ~InRange(l)

selected_issue_permalink(st) ==
    IF IsSome(st.issues.sel) THEN Some(ItemAt(st.issues).permalink) ELSE None

selected_branch_name(st) ==
    IF IsSome(st.branches.sel) THEN Some(ItemAt(st.branches).name) ELSE None

new_branch_name(st) ==
    IF IsSome(selected_issue_key(st))
    THEN Unwrap(selected_issue_key(st)) \o <<"-">> \o st.input
    ELSE UnhandledError

\* String::pop
Pop(s) == IF s = <<>> THEN s ELSE SubSeq(s, 1, Len(s) - 1)

(***************************************************************************)
(* Fetch operations (state.rs:86-137).  Each spawns one task that holds a  *)
(* clone of the State made at the call (find_relevant_branches: the key    *)
(* read from it before the spawn, and no task when no issue is selected).  *)
(***************************************************************************)
NoTask == <<>>
TaskOf(kind, st) == <<[kind |-> kind, st |-> st, key |-> <<>>]>>

fetch_tickets(st) == TaskOf("fetch_tickets", st)
fetch_boards(st) == TaskOf("fetch_boards", st)
\* faulty variant of fetch_transitions: the fetch is for the first ticket
fetch_transitions_FirstIssue(st) ==
    TaskOf("fetch_transitions", [st EXCEPT !.issues.sel = Some(0)])
fetch_transitions(st) == TaskOf("fetch_transitions", st)
do_selected_transition(st) == TaskOf("do_selected_transition", st)

\* faulty variant of find_relevant_branches: the lookup is for the first ticket
find_relevant_branches_FirstIssue(st) ==
    IF st.issues.items # <<>>
    THEN <<[kind |-> "find_relevant_branches", st |-> st,
            key |-> st.issues.items[1].key]>>
    ELSE NoTask

find_relevant_branches(st) ==
    IF IsSome(selected_issue_key(st))
    THEN <<[kind |-> "find_relevant_branches", st |-> st,
            key |-> Unwrap(selected_issue_key(st))]>>
    ELSE NoTask

(***************************************************************************)
(* handle_input (state.rs:217-389).  env gives the outcome of the calls to *)
(* the collaborators: env.save of save_config, env.repo of                 *)
(* get_current_repo, env.git of checkout_branch and create_and_use_branch. *)
(* The result is the new State, the tasks spawned, the config file and the *)
(* outcome: "Continue" (Ok), "Quit" (the bail! errors) or "Panic".         *)
(***************************************************************************)
Envs == [save : {"ok", "err"}, repo : {"ok", "err"}, git : {"ok", "err"}]
NoFailure == [save |-> "ok", repo |-> "ok", git |-> "ok"]

Step(st, spawn, out, dsk) ==
    [st |-> st, spawn |-> spawn, out |-> out, disk |-> dsk, git |-> <<>>]
Continue(st, dsk) == Step(st, NoTask, "Continue", dsk)
\* a step that called checkout_branch or create_and_use_branch with a name
GitCall(step, op, name) == [step EXCEPT !.git = <<[op |-> op, name |-> name]>>]

\* save_config: the file holds the config when the write succeeds
save_config(config, env, dsk) == IF env.save = "ok" THEN config ELSE dsk

\* faulty variant of IssuesListEnter: the sentinel is checked out like a branch
IssuesListEnter_SentinelCheckedOut(st, env, dsk) ==
    IF st.issues_focused
    THEN Continue([st EXCEPT !.branches = ListNext(st.branches),
                             !.issues_focused = FALSE], dsk)
    ELSE IF IndexPanics(st.branches) THEN Step(st, NoTask, "Panic", dsk)
    ELSE IF IsSome(selected_branch_name(st))
    THEN IF env.repo = "err" THEN Step(st, NoTask, "Panic", dsk)
         ELSE GitCall(IF env.git = "ok" THEN Step(st, NoTask, "Quit", dsk)
                                        ELSE Continue(st, dsk),
                      "checkout_branch", Unwrap(selected_branch_name(st)))
    ELSE Continue(st, dsk)

\* Enter in IssuesList mode (state.rs:260-276)
IssuesListEnter(st, env, dsk) ==
    IF st.issues_focused
    THEN Continue([st EXCEPT !.branches = ListNext(st.branches),
                             !.issues_focused = FALSE], dsk)
    ELSE IF IndexPanics(st.branches) THEN Step(st, NoTask, "Panic", dsk)
    ELSE IF IsSome(selected_branch_name(st))
    THEN IF Unwrap(selected_branch_name(st)) = CreateNew
         THEN Continue([st EXCEPT !.input_mode = "Editing"], dsk)
         ELSE IF env.repo = "err" THEN Step(st, NoTask, "Panic", dsk)
         ELSE GitCall(IF env.git = "ok" THEN Step(st, NoTask, "Quit", dsk)
                                        ELSE Continue(st, dsk),
                      "checkout_branch", Unwrap(selected_branch_name(st)))
    ELSE Continue(st, dsk)

\* faulty variant of IssuesListMove: Up moves the cursor like Down
IssuesListMove_UpAdvances(st, kind, dsk) ==
    CASE kind = "Right" ->
           IF st.issues_focused /\ IsSome(selected_issue_key(st))
           THEN Continue([st EXCEPT !.branches = ListNext(st.branches),
                                    !.issues_focused = FALSE], dsk)
           ELSE Continue(st, dsk)
      [] kind = "Left" ->
           IF st.issues_focused
           THEN Continue([st EXCEPT !.issues = ListUnselect(st.issues),
                                    !.branches.items = <<>>], dsk)
           ELSE Continue([st EXCEPT !.branches = ListUnselect(st.branches),
                                    !.issues_focused = TRUE], dsk)
      [] kind = "Down" ->
           IF st.issues_focused
           THEN LET s1 == [st EXCEPT !.issues = ListNext(st.issues)]
                IN  Step(s1, find_relevant_branches(s1), "Continue", dsk)
           ELSE Continue([st EXCEPT !.branches = ListNext(st.branches)], dsk)
      [] kind = "Up" ->
           IF st.issues_focused
           THEN LET s1 == [st EXCEPT !.issues = ListNext(st.issues)]
                IN  Step(s1, find_relevant_branches(s1), "Continue", dsk)
           ELSE Continue([st EXCEPT !.branches = ListNext(st.branches)], dsk)

\* Left, Right, Down, Up in IssuesList mode (state.rs:277-308)
IssuesListMove(st, kind, dsk) ==
    CASE kind = "Right" ->
           IF st.issues_focused /\ IsSome(selected_issue_key(st))
           THEN Continue([st EXCEPT !.branches = ListNext(st.branches),
                                    !.issues_focused = FALSE], dsk)
           ELSE Continue(st, dsk)
      [] kind = "Left" ->
           IF st.issues_focused
           THEN Continue([st EXCEPT !.issues = ListUnselect(st.issues),
                                    !.branches.items = <<>>], dsk)
           ELSE Continue([st EXCEPT !.branches = ListUnselect(st.branches),
                                    !.issues_focused = TRUE], dsk)
      [] kind = "Down" ->
           IF st.issues_focused
           THEN LET s1 == [st EXCEPT !.issues = ListNext(st.issues)]
                IN  Step(s1, find_relevant_branches(s1), "Continue", dsk)
           ELSE Continue([st EXCEPT !.branches = ListNext(st.branches)], dsk)
      [] kind = "Up" ->
           IF st.issues_focused
           THEN LET s1 == [st EXCEPT !.issues = ListPrevious(st.issues)]
                IN  Step(s1, find_relevant_branches(s1), "Continue", dsk)
           ELSE Continue([st EXCEPT !.branches = ListPrevious(st.branches)], dsk)

\* faulty variant of IssuesListChar: i and m start the fetch before the toggle
IssuesListChar_FetchBeforeToggle(st, c, env, dsk) ==
    CASE c = "b" ->
           LET s1 == [st EXCEPT !.input_mode = "BoardsList"]
           IN  Step(s1, fetch_boards(s1), "Continue", dsk)
      [] c = "c" ->
           Continue([st EXCEPT !.input = st.config.default_project_key,
                               !.input_mode = "EditingDefaultProject"], dsk)
      [] c = "i" ->
           LET s1 == [st EXCEPT !.config.filter_in_progress =
                                    ~st.config.filter_in_progress]
           IN  Step(s1, fetch_tickets(st), "Continue",
                    save_config(s1.config, env, dsk))
      [] c = "m" ->
           LET s1 == [st EXCEPT !.config.filter_mine = ~st.config.filter_mine]
           IN  Step(s1, fetch_tickets(st), "Continue",
                    save_config(s1.config, env, dsk))
      [] c = "o" ->
           IF IndexPanics(st.issues) THEN Step(st, NoTask, "Panic", dsk)
           ELSE Continue(st, dsk)
      [] c = "q" -> Step(st, NoTask, "Quit", dsk)
      [] c = "r" -> Step(st, fetch_tickets(st), "Continue", dsk)
      [] c = "s" ->
           Step([st EXCEPT !.input_mode = "UpdateIssueStatus"],
                fetch_transitions(st), "Continue", dsk)
      [] OTHER -> Continue(st, dsk)

\* the Char keys of IssuesList mode (state.rs:225-259)
\* faulty variant of IssuesListChar: keys i and m switch their filter on
\* instead of negating it
IssuesListChar_SetsFlag(st, c, env, dsk) ==
    CASE c = "b" ->
           LET s1 == [st EXCEPT !.input_mode = "BoardsList"]
           IN  Step(s1, fetch_boards(s1), "Continue", dsk)
      [] c = "c" ->
           Continue([st EXCEPT !.input = st.config.default_project_key,
                               !.input_mode = "EditingDefaultProject"], dsk)
      [] c = "i" ->
           LET s1 == [st EXCEPT !.config.filter_in_progress = TRUE]
           IN  Step(s1, fetch_tickets(s1), "Continue",
                    save_config(s1.config, env, dsk))
      [] c = "m" ->
           LET s1 == [st EXCEPT !.config.filter_mine = TRUE]
           IN  Step(s1, fetch_tickets(s1), "Continue",
                    save_config(s1.config, env, dsk))
      [] c = "o" ->
           IF IndexPanics(st.issues) THEN Step(st, NoTask, "Panic", dsk)
           ELSE Continue(st, dsk)
      [] c = "q" -> Step(st, NoTask, "Quit", dsk)
      [] c = "r" -> Step(st, fetch_tickets(st), "Continue", dsk)
      [] c = "s" ->
           Step([st EXCEPT !.input_mode = "UpdateIssueStatus"],
                fetch_transitions(st), "Continue", dsk)
      [] OTHER -> Continue(st, dsk)

IssuesListChar(st, c, env, dsk) ==
    CASE c = "b" ->
           LET s1 == [st EXCEPT !.input_mode = "BoardsList"]
           IN  Step(s1, fetch_boards(s1), "Continue", dsk)
      [] c = "c" ->
           Continue([st EXCEPT !.input = st.config.default_project_key,
                               !.input_mode = "EditingDefaultProject"], dsk)
      [] c = "i" ->
           LET s1 == [st EXCEPT !.config.filter_in_progress =
                                    ~st.config.filter_in_progress]
           IN  Step(s1, fetch_tickets(s1), "Continue",
                    save_config(s1.config, env, dsk))
      [] c = "m" ->
           LET s1 == [st EXCEPT !.config.filter_mine = ~st.config.filter_mine]
           IN  Step(s1, fetch_tickets(s1), "Continue",
                    save_config(s1.config, env, dsk))
      [] c = "o" ->
           IF IndexPanics(st.issues) THEN Step(st, NoTask, "Panic", dsk)
           ELSE Continue(st, dsk)
      [] c = "q" -> Step(st, NoTask, "Quit", dsk)
      [] c = "r" -> Step(st, fetch_tickets(st), "Continue", dsk)
      [] c = "s" ->
           Step([st EXCEPT !.input_mode = "UpdateIssueStatus"],
                fetch_transitions(st), "Continue", dsk)
      [] OTHER -> Continue(st, dsk)

\* faulty variant of BoardsListKey: Esc is not bound
BoardsListKey_EscUnbound(st, code, dsk) ==
    CASE code.kind = "Down" -> Continue([st EXCEPT !.boards = ListNext(st.boards)], dsk)
      [] code.kind = "Up" -> Continue([st EXCEPT !.boards = ListPrevious(st.boards)], dsk)
      [] code = CharKey("o") ->
           IF IndexPanics(st.boards) THEN Step(st, NoTask, "Panic", dsk)
           ELSE Continue(st, dsk)
      [] OTHER -> Continue(st, dsk)

\* BoardsList mode (state.rs:311-326)
BoardsListKey(st, code, dsk) ==
    CASE code.kind = "Esc" -> Continue([st EXCEPT !.input_mode = "IssuesList"], dsk)
      [] code.kind = "Down" -> Continue([st EXCEPT !.boards = ListNext(st.boards)], dsk)
      [] code.kind = "Up" -> Continue([st EXCEPT !.boards = ListPrevious(st.boards)], dsk)
      [] code = CharKey("o") ->
           IF IndexPanics(st.boards) THEN Step(st, NoTask, "Panic", dsk)
           ELSE Continue(st, dsk)
      [] OTHER -> Continue(st, dsk)

\* UpdateIssueStatus mode (state.rs:327-341)
UpdateIssueStatusKey(st, code, dsk) ==
    CASE code.kind = "Esc" -> Continue([st EXCEPT !.input_mode = "IssuesList"], dsk)
      [] code.kind = "Down" ->
           Continue([st EXCEPT !.transitions = ListNext(st.transitions)], dsk)
      [] code.kind = "Up" ->
           Continue([st EXCEPT !.transitions = ListPrevious(st.transitions)], dsk)
      [] code.kind = "Enter" ->
           Step(st, do_selected_transition(st), "Continue", dsk)
      [] OTHER -> Continue(st, dsk)

\* Editing mode (state.rs:342-361)
EditingKey(st, code, env, dsk) ==
    CASE code.kind = "Enter" ->
           IF env.repo = "ok"
           THEN GitCall(IF env.git = "ok" THEN Step(st, NoTask, "Quit", dsk)
                                          ELSE Continue(st, dsk),
                        "create_and_use_branch", new_branch_name(st))
           ELSE Continue(st, dsk)
      [] code.kind = "Char" -> Continue([st EXCEPT !.input = Append(st.input, code.c)], dsk)
      [] code.kind = "Backspace" -> Continue([st EXCEPT !.input = Pop(st.input)], dsk)
      [] code.kind = "Esc" -> Continue([st EXCEPT !.input_mode = "IssuesList"], dsk)
      [] OTHER -> Continue(st, dsk)

\* the error text save_config's failure is displayed as
SaveErrorText == <<"e", "r", "r">>

\* faulty variant of EditingDefaultProjectKey: the fetch is started from the
\* State as it was before the key was set
EditingDefaultProjectKey_FetchOldKey(st, code, env, dsk) ==
    CASE code.kind = "Enter" ->
           LET s1 == [st EXCEPT !.config.default_project_key = st.input]
           IN  IF env.save = "ok"
               THEN LET s2 == [s1 EXCEPT !.input_mode = "IssuesList"]
                    IN  Step(s2, fetch_tickets(st), "Continue",
                             save_config(s1.config, env, dsk))
               ELSE Continue([s1 EXCEPT !.input = SaveErrorText], dsk)
      [] code.kind = "Char" -> Continue([st EXCEPT !.input = Append(st.input, code.c)], dsk)
      [] code.kind = "Backspace" -> Continue([st EXCEPT !.input = Pop(st.input)], dsk)
      [] code.kind = "Esc" -> Continue([st EXCEPT !.input_mode = "IssuesList"], dsk)
      [] OTHER -> Continue(st, dsk)

\* EditingDefaultProject mode (state.rs:362-385)
EditingDefaultProjectKey(st, code, env, dsk) ==
    CASE code.kind = "Enter" ->
           LET s1 == [st EXCEPT !.config.default_project_key = st.input]
           IN  IF env.save = "ok"
               THEN LET s2 == [s1 EXCEPT !.input_mode = "IssuesList"]
                    IN  Step(s2, fetch_tickets(s2), "Continue",
                             save_config(s1.config, env, dsk))
               ELSE Continue([s1 EXCEPT !.input = SaveErrorText], dsk)
      [] code.kind = "Char" -> Continue([st EXCEPT !.input = Append(st.input, code.c)], dsk)
      [] code.kind = "Backspace" -> Continue([st EXCEPT !.input = Pop(st.input)], dsk)
      [] code.kind = "Esc" -> Continue([st EXCEPT !.input_mode = "IssuesList"], dsk)
      [] OTHER -> Continue(st, dsk)

handle_input(st, code, env, dsk) ==
    CASE st.input_mode = "IssuesList" ->
           IF code.kind = "Char" THEN IssuesListChar(st, code.c, env, dsk)
           ELSE IF code.kind = "Enter" THEN IssuesListEnter(st, env, dsk)
           ELSE IF code.kind \in {"Left", "Right", "Up", "Down"}
                THEN IssuesListMove(st, code.kind, dsk)
           ELSE Continue(st, dsk)
      [] st.input_mode = "BoardsList" -> BoardsListKey(st, code, dsk)
      [] st.input_mode = "UpdateIssueStatus" -> UpdateIssueStatusKey(st, code, dsk)
      [] st.input_mode = "Editing" -> EditingKey(st, code, env, dsk)
      [] st.input_mode = "EditingDefaultProject" ->
           EditingDefaultProjectKey(st, code, env, dsk)

(***************************************************************************)
(* Events (events.rs:8-13, state.rs:38-77).  n is the ordinal of the       *)
(* commit to the bus; id and key name the task that sent the event (0 for  *)
(* the key-input task).                                                    *)
(***************************************************************************)
Event(type, code, items, n, id, key) ==
    [type |-> type, code |-> code, items |-> items, n |-> n, id |-> id, key |-> key]
NoEvent == Event("", NoKey, <<>>, 0, 0, <<>>)

\* faulty variant of OnTransitionsFetched: applied only in UpdateIssueStatus mode
OnTransitionsFetched_GatedByMode(st, items) ==
    IF st.input_mode = "UpdateIssueStatus"
    THEN [st EXCEPT !.transitions = ListNext(WithItems(items))]
    ELSE st

\* the updater's match on the event (state.rs:38-77)
OnTransitionsFetched(st, items) ==
    [st EXCEPT !.transitions = ListNext(WithItems(items))]

\* faulty variant of OnTransitionExecuted: the mode is left as it is
OnTransitionExecuted_KeepMode(st) == [st EXCEPT !.transitions = ListNew]

OnTransitionExecuted(st) ==
    [st EXCEPT !.transitions = ListNew, !.input_mode = "IssuesList"]

\* faulty variant of OnIssuesUpdated: the items are replaced in place, as for the
\* boards, so the old cursor is advanced
OnIssuesUpdated_KeepCursor(st, items) ==
    [st EXCEPT !.issues = ListNext([st.issues EXCEPT !.items = items])]

OnIssuesUpdated(st, items) ==
    [st EXCEPT !.issues = ListNext(WithItems(items))]

OnBoardsUpdated(st, items) ==
    [st EXCEPT !.boards = ListNext([st.boards EXCEPT !.items = items])]

\* faulty variant of OnBranchesUpdated: no sentinel for an empty result
OnBranchesUpdated_NoSentinelWhenEmpty(st, items) ==
    [st EXCEPT !.branches.items =
        IF items = <<>> THEN <<>> ELSE Append(items, BranchSummary(CreateNew))]

\* faulty variant of OnBranchesUpdated: the first branch is selected as the
\* BoardsUpdated arm selects the first board
OnBranchesUpdated_SelectsFirst(st, items) ==
    [st EXCEPT !.branches =
        ListNext([st.branches EXCEPT
                     !.items = Append(items, BranchSummary(CreateNew))])]

\* faulty variant of OnBranchesUpdated: the branches delivered and the
\* sentinel are pushed onto the items already held
OnBranchesUpdated_Extends(st, items) ==
    [st EXCEPT !.branches.items =
        st.branches.items \o Append(items, BranchSummary(CreateNew))]

OnBranchesUpdated(st, items) ==
    [st EXCEPT !.branches.items = Append(items, BranchSummary(CreateNew))]

\* faulty variant of Apply: a BranchesUpdated event of a lookup made for another
\* ticket than the selected one is discarded
Apply_DiscardStale(st, ev, env, dsk) ==
    CASE ev.type = "KeyEvent" -> handle_input(st, ev.code, env, dsk)
      [] ev.type = "TransitionsFetched" ->
           Continue(OnTransitionsFetched(st, ev.items), dsk)
      [] ev.type = "TransitionExecuted" -> Continue(OnTransitionExecuted(st), dsk)
      [] ev.type = "IssuesUpdated" ->
           LET s1 == OnIssuesUpdated(st, ev.items)
           IN  Step(s1, find_relevant_branches(s1), "Continue", dsk)
      [] ev.type = "BoardsUpdated" -> Continue(OnBoardsUpdated(st, ev.items), dsk)
      [] ev.type = "BranchesUpdated" ->
           IF selected_issue_key(st) = Some(ev.key)
           THEN Continue(OnBranchesUpdated(st, ev.items), dsk)
           ELSE Continue(st, dsk)

Apply(st, ev, env, dsk) ==
    CASE ev.type = "KeyEvent" -> handle_input(st, ev.code, env, dsk)
      [] ev.type = "TransitionsFetched" ->
           Continue(OnTransitionsFetched(st, ev.items), dsk)
      [] ev.type = "TransitionExecuted" -> Continue(OnTransitionExecuted(st), dsk)
      [] ev.type = "IssuesUpdated" ->
           LET s1 == OnIssuesUpdated(st, ev.items)
           IN  Step(s1, find_relevant_branches(s1), "Continue", dsk)
      [] ev.type = "BoardsUpdated" -> Continue(OnBoardsUpdated(st, ev.items), dsk)
      [] ev.type = "BranchesUpdated" -> Continue(OnBranchesUpdated(st, ev.items), dsk)

(***************************************************************************)
(* The channels.                                                           *)
(***************************************************************************)
\* UnboundedSender::send: appended when the receiver lives, an error (the
\* event is lost) once the actor task has ended
ActorLives == pc \in {"recv", "send"}
BusSend(type, code, items, id, key) ==
    /\ bus' = IF ActorLives
              THEN Append(bus, Event(type, code, items, committed + 1, id, key))
              ELSE bus
    /\ committed' = IF ActorLives THEN committed + 1 ELSE committed

\* faulty variant of BusNext: the newest event is taken first
BusNext_Newest(b) == b[Len(b)]

\* UnboundedReceiver::recv: the oldest event
BusNext(b) == Head(b)
BusRest(b) == Tail(b)

Snapshot(st, n) == [st |-> st, n |-> n]

\* tokio::spawn of the tasks a step starts (at most one per step)
Spawned(spawn, id) ==
    IF spawn = NoTask THEN {}
    ELSE {[id |-> id + 1, kind |-> spawn[1].kind, st |-> spawn[1].st,
           key |-> spawn[1].key]}

(***************************************************************************)
(* Initial state: State::new() from the loaded config, the priming         *)
(* snapshot and the first fetch_tickets (state.rs:27-32, 160-173).         *)
(***************************************************************************)
\* faulty variant of InitFrom: the first ticket fetch is started from the
\* default config, before the stored one is loaded
InitFrom_FetchBeforeLoad(configs) ==
    /\ \E config \in configs :
          /\ state = StateNew(config)
          /\ disk = config
    /\ pc = "recv"
    /\ bus = <<>>
    /\ chan = <<Snapshot(state, 0)>>
    /\ tasks = Spawned(fetch_tickets(StateNew(DefaultConfig)), 0)
    /\ drawn = <<>>
    /\ nextId = 1
    /\ keysSent = 0
    /\ committed = 0
    /\ applied = <<>>
    /\ pubs = 1
    /\ typed = <<>>
    /\ branchesFrom = [id |-> 0, key |-> <<>>, items |-> <<>>, prevId |-> 0]
    /\ ended = {}
    /\ last = [ev |-> NoEvent, pre |-> state, spawn |-> {}, out |-> "Continue",
               git |-> <<>>, env |-> NoFailure]

InitFrom(configs) ==
    /\ \E config \in configs :
          /\ state = StateNew(config)
          /\ disk = config
    /\ pc = "recv"
    /\ bus = <<>>
    /\ chan = <<Snapshot(state, 0)>>
    /\ tasks = Spawned(fetch_tickets(state), 0)
    /\ drawn = <<>>
    /\ nextId = 1
    /\ keysSent = 0
    /\ committed = 0
    /\ applied = <<>>
    /\ pubs = 1
    /\ typed = <<>>
    /\ branchesFrom = [id |-> 0, key |-> <<>>, items |-> <<>>, prevId |-> 0]
    /\ ended = {}
    /\ last = [ev |-> NoEvent, pre |-> state, spawn |-> {}, out |-> "Continue",
               git |-> <<>>, env |-> NoFailure]

(***************************************************************************)
(* The key-input task (events.rs:17-38): each key read is sent on the bus. *)
(***************************************************************************)
KeyInput(keys, max) ==
    /\ keysSent < max
    /\ \E code \in keys : BusSend("KeyEvent", code, <<>>, 0, <<>>)
    /\ keysSent' = keysSent + 1
    /\ UNCHANGED <<state, pc, chan, tasks, disk, drawn, nextId, applied, pubs,
                   typed, branchesFrom, ended, last>>

(***************************************************************************)
(* The actor loop (state.rs:34-81).                                        *)
(***************************************************************************)
\* faulty variant of Publish: a state equal to the one before the step is not sent
Publish_OnlyIfChanged(st) ==
    IF st = state
    THEN pc' = "recv" /\ UNCHANGED <<chan, pubs>>
    ELSE IF Len(chan) < SnapshotCapacity
    THEN /\ chan' = Append(chan, Snapshot(st, pubs))
         /\ pubs' = pubs + 1
         /\ pc' = "recv"
    ELSE /\ pc' = "send"
         /\ UNCHANGED <<chan, pubs>>

\* faulty variant of Publish: try_send, the snapshot is dropped when the channel is
\* full
Publish_DropWhenFull(st) ==
    /\ pc' = "recv"
    /\ IF Len(chan) < SnapshotCapacity
       THEN /\ chan' = Append(chan, Snapshot(st, pubs))
            /\ pubs' = pubs + 1
       ELSE UNCHANGED <<chan, pubs>>

\* tx.send(state.clone()).await: completes when the channel has room,
\* otherwise the actor stays suspended in the send
Publish(st) ==
    IF Len(chan) < SnapshotCapacity
    THEN /\ chan' = Append(chan, Snapshot(st, pubs))
         /\ pubs' = pubs + 1
         /\ pc' = "recv"
    ELSE /\ pc' = "send"
         /\ UNCHANGED <<chan, pubs>>

\* history of the text typed in Editing mode
TypedAfter(st, ev, new) ==
    IF ev.type # "KeyEvent" THEN typed
    ELSE IF st.input_mode # "Editing"
         THEN (IF new.input_mode = "Editing" THEN <<>> ELSE typed)
    ELSE IF ev.code.kind = "Char" THEN Append(typed, ev.code.c)
    ELSE IF ev.code.kind = "Backspace" THEN Pop(typed)
    ELSE typed

\* the outcomes of the collaborator calls a step can make: save_config is
\* called by i, m and Enter, the repository by Enter
Outcomes(st, ev) ==
    {env \in Envs :
        /\ env.save = "err" =>
              /\ ev.type = "KeyEvent"
              /\ ev.code \in {CharKey("i"), CharKey("m"), Key("Enter")}
              /\ st.input_mode \in {"IssuesList", "EditingDefaultProject"}
        /\ (env.repo = "err" \/ env.git = "err") =>
              /\ ev.type = "KeyEvent"
              /\ ev.code = Key("Enter")
              /\ \/ st.input_mode = "Editing"
                 \/ st.input_mode = "IssuesList" /\ ~st.issues_focused}

ActorStep ==
    /\ pc = "recv"
    /\ bus # <<>>
    /\ \E env \in Outcomes(state, BusNext(bus)) :
         LET ev == BusNext(bus)
             r == Apply(state, ev, env, disk)
             new == Spawned(r.spawn, nextId)
         IN  /\ state' = r.st
             /\ disk' = r.disk
             /\ tasks' = tasks \cup new
             /\ nextId' = nextId + Cardinality(new)
             /\ applied' = Append(applied, ev.n)
             /\ typed' = TypedAfter(state, ev, r.st)
             /\ branchesFrom' =
                   IF ev.type = "BranchesUpdated"
                   THEN [id |-> ev.id, key |-> ev.key, items |-> ev.items,
                         prevId |-> branchesFrom.id]
                   ELSE branchesFrom
             /\ last' = [ev |-> ev, pre |-> state, spawn |-> new, out |-> r.out,
                         git |-> r.git, env |-> env]
             /\ IF r.out = "Continue"
                THEN /\ bus' = BusRest(bus)
                     /\ Publish(r.st)
                ELSE \* break or panic: the task ends and drops the receiver
                     /\ bus' = <<>>
                     /\ pc' = IF r.out = "Quit" THEN "done" ELSE "panicked"
                     /\ UNCHANGED <<chan, pubs>>
    /\ UNCHANGED <<drawn, keysSent, committed, ended>>

\* the suspended send completes
ActorSend ==
    /\ pc = "send"
    /\ Len(chan) < SnapshotCapacity
    /\ chan' = Append(chan, Snapshot(state, pubs))
    /\ pubs' = pubs + 1
    /\ pc' = "recv"
    /\ UNCHANGED <<state, bus, tasks, disk, drawn, nextId, keysSent, committed,
                   applied, typed, branchesFrom, ended, last>>

(***************************************************************************)
(* The rendering loop (ui.rs:262-264): takes the oldest snapshot, draws it.*)
(***************************************************************************)
\* faulty variant of Render: the renderer draws the actor's own State, not a
\* copy, and its drawing is seen by the actor
Render_WritesBack ==
    /\ chan # <<>>
    /\ drawn' = Append(drawn, Head(chan))
    /\ chan' = Tail(chan)
    /\ state' = Head(chan).st
    /\ UNCHANGED <<pc, bus, tasks, disk, nextId, keysSent, committed,
                   applied, pubs, typed, branchesFrom, ended, last>>

\* faulty variant of Render: the renderer stops with the actor and leaves the
\* snapshots still in the channel undrawn
Render_StopsWithActor ==
    /\ chan # <<>>
    /\ ActorLives
    /\ drawn' = Append(drawn, Head(chan))
    /\ chan' = Tail(chan)
    /\ UNCHANGED <<state, pc, bus, tasks, disk, nextId, keysSent, committed,
                   applied, pubs, typed, branchesFrom, ended, last>>

\* faulty variant of Render: the actor's pending send blocks the thread the
\* renderer runs on
Render_BlockedBySender ==
    /\ chan # <<>>
    /\ pc # "send"
    /\ drawn' = Append(drawn, Head(chan))
    /\ chan' = Tail(chan)
    /\ UNCHANGED <<state, pc, bus, tasks, disk, nextId, keysSent, committed,
                   applied, pubs, typed, branchesFrom, ended, last>>

Render ==
    /\ chan # <<>>
    /\ drawn' = Append(drawn, Head(chan))
    /\ chan' = Tail(chan)
    /\ UNCHANGED <<state, pc, bus, tasks, disk, nextId, keysSent, committed,
                   applied, pubs, typed, branchesFrom, ended, last>>

(***************************************************************************)
(* The fetch tasks (state.rs:86-137).  A task whose call succeeds sends    *)
(* one event; a failing call sends none.                                   *)
(***************************************************************************)
\* assert!(event_tx.send(..).is_ok()): the task panics when the actor has
\* dropped the receiver
SendOutcome == IF ActorLives THEN "sent" ELSE "send_panicked"

\* faulty variant of QueryOf: the task reads the config of the actor's State
\* at the moment of the search, not of its clone
QueryOf_CurrentConfig(t) ==
    IF t.kind = "fetch_tickets" THEN current_issues_query(state.config) ELSE <<>>

\* the query a ticket fetch passes to the search (none for the other kinds)
QueryOf(t) ==
    IF t.kind = "fetch_tickets" THEN current_issues_query(t.st.config) ELSE <<>>

\* faulty variant of TaskEnds: the task is not finished by its send and goes
\* on running
TaskEnds_Stays(t, how) ==
    /\ tasks' = tasks
    /\ ended' = ended \cup {[id |-> t.id, kind |-> t.kind, how |-> how,
                              config |-> t.st.config, query |-> QueryOf(t)]}
    /\ UNCHANGED <<state, pc, chan, disk, drawn, nextId, keysSent, applied, pubs,
                   typed, branchesFrom, last>>

TaskEnds(t, how) ==
    /\ tasks' = tasks \ {t}
    /\ ended' = ended \cup {[id |-> t.id, kind |-> t.kind, how |-> how,
                              config |-> t.st.config, query |-> QueryOf(t)]}
    /\ UNCHANGED <<state, pc, chan, disk, drawn, nextId, keysSent, applied, pubs,
                   typed, branchesFrom, last>>

TicketsFetched(lists) ==
    \E t \in tasks : \E issues \in lists :
        /\ t.kind = "fetch_tickets"
        /\ BusSend("IssuesUpdated", NoKey, issues, t.id, <<>>)
        /\ TaskEnds(t, SendOutcome)

BoardsFetched(lists) ==
    \E t \in tasks : \E boards \in lists :
        /\ t.kind = "fetch_boards"
        /\ BusSend("BoardsUpdated", NoKey, boards, t.id, <<>>)
        /\ TaskEnds(t, SendOutcome)

TransitionsFetched(lists) ==
    \E t \in tasks : \E transitions \in lists :
        /\ t.kind = "fetch_transitions"
        /\ IsSome(selected_issue_key(t.st))
        /\ BusSend("TransitionsFetched", NoKey, transitions, t.id,
                   Unwrap(selected_issue_key(t.st)))
        /\ TaskEnds(t, SendOutcome)

BranchesFetched(repos) ==
    \E t \in tasks : \E repo \in repos :
        /\ t.kind = "find_relevant_branches"
        /\ BusSend("BranchesUpdated", NoKey, matching_branches(repo, t.key),
                   t.id, t.key)
        /\ TaskEnds(t, SendOutcome)

\* do_selected_transition: a transition must be selected in the clone
TransitionDone ==
    \E t \in tasks :
        /\ t.kind = "do_selected_transition"
        /\ InRange(t.st.transitions)
        /\ IsSome(selected_issue_key(t.st))
        /\ BusSend("TransitionExecuted", NoKey, <<>>, t.id,
                   Unwrap(selected_issue_key(t.st)))
        /\ TaskEnds(t, SendOutcome)

\* the call fails (or there is nothing to call with): no event
TaskFails ==
    \E t \in tasks :
        /\ TaskEnds(t, "failed")
        /\ UNCHANGED <<bus, committed>>

(***************************************************************************)
(* Pacing of the producers.  The actor applies the events in the order of  *)
(* their commit, whatever the moment of the commit, so a run in which a    *)
(* producer commits only when the bus is empty visits the same actor       *)
(* states as one in which it runs ahead.  The specifications that look at  *)
(* the actor's transitions pace the producers; SpecChan, which looks at    *)
(* the queues, does not.                                                   *)
(***************************************************************************)
Paced == ActorLives => bus = <<>>

(***************************************************************************)
(* Navigation: the ticket and branch lists under the arrow keys and Enter. *)
(***************************************************************************)
NavKeys == {Key(k) : k \in {"Down", "Left", "Right", "Enter"}}

Init == InitFrom({DefaultConfig})

Next ==
    \/ Paced /\ KeyInput(NavKeys, MaxKeys)
    \/ ActorStep
    \/ Paced /\ TicketsFetched(IssueLists)
    \/ Paced /\ BranchesFetched(Repos)

Spec == Init /\ [][Next]_vars

(***************************************************************************)
(* Editing: the two text-entry modes, entered from the lists.              *)
(***************************************************************************)
EditKeys == {CharKey("c"), CharKey("x"), Key("Enter"), Key("Esc")}

InitEdit == InitFrom({StoredConfig})

NextEdit ==
    \/ Paced /\ KeyInput(EditKeys, MaxEditKeys)
    \/ ActorStep
    \/ Paced /\ TicketsFetched({<<Issue1, Issue2>>})
    \/ Paced /\ BranchesFetched(Repos)

SpecEdit == InitEdit /\ [][NextEdit]_vars

(***************************************************************************)
(* Modes: the five input modes, entered from the lists, with completions   *)
(* of every kind arriving in them.  The repository holds no branch of the  *)
(* tickets, so Enter on the branch list opens Editing mode.                *)
(***************************************************************************)
ModeKeys == {CharKey("b"), CharKey("s"), CharKey("c"), Key("Enter"), Key("Esc")}

NextModes ==
    \/ Paced /\ KeyInput(ModeKeys, MaxModeKeys)
    \/ ActorStep
    \/ Paced /\ TicketsFetched({<<Issue1, Issue2>>})
    \/ Paced /\ BoardsFetched({<<Board1, Board2>>})
    \/ Paced /\ TransitionsFetched({<<Transition1, Transition2>>})
    \/ Paced /\ BranchesFetched({<<>>})
    \/ Paced /\ TransitionDone

SpecModes == Init /\ [][NextModes]_vars

(***************************************************************************)
(* Refetch: fetching the tickets again while moving in the ticket list.    *)
(***************************************************************************)
RefetchKeys == {CharKey("r"), Key("Down")}

NextRefetch ==
    \/ Paced /\ KeyInput(RefetchKeys, MaxRefetchKeys)
    \/ ActorStep
    \/ Paced /\ TicketsFetched({<<>>, <<Issue1, Issue2>>})
    \/ Paced /\ BranchesFetched({FullRepo})

SpecRefetch == Init /\ [][NextRefetch]_vars

(***************************************************************************)
(* Channels: a burst of keys no mode handles, the first ticket fetch       *)
(* finding nothing, and the rendering loop taking snapshots at its pace.   *)
(***************************************************************************)
NextChan ==
    \/ KeyInput({Key("Tab")}, MaxBurst)
    \/ ActorStep
    \/ ActorSend
    \/ Render
    \/ TicketsFetched({<<>>})
    \/ TaskFails

SpecChan == Init /\ [][NextChan]_vars

\* The same with the scheduling of the runtime: the actor's task runs when an
\* event waits or its pending send has room (state.rs:34-81), and the renderer
\* keeps taking the snapshots that wait (ui.rs:262-264).
SpecChanFair ==
    /\ SpecChan
    /\ WF_vars(ActorStep)
    /\ WF_vars(ActorSend)
    /\ WF_vars(Render)

(***************************************************************************)
(* Fetches: the five kinds of fetch task, each succeeding or failing.      *)
(***************************************************************************)
FetchKeys == {CharKey("b"), CharKey("s"), Key("Enter"), Key("Esc")}

NextFetch ==
    \/ Paced /\ KeyInput(FetchKeys, MaxFetchKeys)
    \/ ActorStep
    \/ Paced /\ TicketsFetched({<<Issue1, Issue2>>})
    \/ Paced /\ BoardsFetched({<<Board1, Board2>>})
    \/ Paced /\ TransitionsFetched({<<Transition1, Transition2>>})
    \/ Paced /\ BranchesFetched({FullRepo})
    \/ Paced /\ TransitionDone
    \/ TaskFails

SpecFetch == Init /\ [][NextFetch]_vars

(***************************************************************************)
(* Filters: the two filter toggles, from the default or a stored config.   *)
(***************************************************************************)
FilterKeys == {CharKey("i"), CharKey("m")}

InitFilter == InitFrom(LoadableConfigs)

NextFilter ==
    \/ Paced /\ KeyInput(FilterKeys, MaxFilterKeys)
    \/ ActorStep
    \/ Paced /\ TicketsFetched({<<Issue1, Issue2>>})

SpecFilter == InitFilter /\ [][NextFilter]_vars

(***************************************************************************)
(* View: the rendering loop drawing the snapshots while the lists change.  *)
(***************************************************************************)
ViewKeys == {Key("Down"), Key("Enter")}

NextView ==
    \/ Paced /\ KeyInput(ViewKeys, MaxViewKeys)
    \/ ActorStep
    \/ Render
    \/ Paced /\ TicketsFetched({<<Issue1, Issue2>>})
    \/ Paced /\ BranchesFetched({FullRepo})
    \/ TaskFails

SpecView == Init /\ [][NextView]_vars

(***************************************************************************)
(* Cursor: the four arrow keys moving the two cursors of IssuesList mode.  *)
(***************************************************************************)
CursorKeys == {Key(k) : k \in {"Up", "Down", "Left", "Right"}}

NextCursor ==
    \/ Paced /\ KeyInput(CursorKeys, MaxCursorKeys)
    \/ ActorStep
    \/ Paced /\ TicketsFetched({<<>>, <<Issue1, Issue2>>})
    \/ Paced /\ BranchesFetched({FullRepo})

SpecCursor == Init /\ [][NextCursor]_vars

(***************************************************************************)
(* Project: opening and leaving the entry of the default project key.      *)
(***************************************************************************)
ProjectKeys == {CharKey("c"), CharKey("p"), CharKey("x"), Key("Esc")}

NextProject ==
    \/ Paced /\ KeyInput(ProjectKeys, MaxProjectKeys)
    \/ ActorStep
    \/ Paced /\ TicketsFetched({<<Issue1, Issue2>>})
    \/ Paced /\ BranchesFetched({FullRepo})

SpecProject == InitFilter /\ [][NextProject]_vars

(***************************************************************************)
(* Escape: leaving each of the modes with Esc, and the program with q.     *)
(***************************************************************************)
EscapeKeys == {CharKey("b"), CharKey("s"), CharKey("c"), CharKey("q"),
               Key("Enter"), Key("Esc")}

NextEscape ==
    \/ Paced /\ KeyInput(EscapeKeys, MaxEscapeKeys)
    \/ ActorStep
    \/ Paced /\ TicketsFetched({<<Issue1, Issue2>>})
    \/ Paced /\ BoardsFetched({<<Board1, Board2>>})
    \/ Paced /\ BranchesFetched({<<>>})

SpecEscape == Init /\ [][NextEscape]_vars

(***************************************************************************)
(* Open: opening the permalink of the selected ticket or board.            *)
(***************************************************************************)
OpenKeys == {CharKey("b"), CharKey("o"), Key("Esc"), Key("Left")}

NextOpen ==
    \/ Paced /\ KeyInput(OpenKeys, MaxOpenKeys)
    \/ ActorStep
    \/ Paced /\ TicketsFetched({<<>>, <<Issue1, Issue2>>})
    \/ Paced /\ BoardsFetched({<<>>, <<Board1, Board2>>})
    \/ Paced /\ BranchesFetched({FullRepo})

SpecOpen == Init /\ [][NextOpen]_vars

(***************************************************************************)
(* Parameters: the State changing while fetches of three kinds are pending.*)
(***************************************************************************)
ParamKeys == {CharKey("i"), CharKey("s"), Key("Down"), Key("Esc")}

NextParams ==
    \/ Paced /\ KeyInput(ParamKeys, MaxParamKeys)
    \/ ActorStep
    \/ Paced /\ TicketsFetched({<<Issue1, Issue2>>})
    \/ Paced /\ TransitionsFetched({<<Transition1, Transition2>>})
    \/ Paced /\ BranchesFetched({FullRepo})

SpecParams == Init /\ [][NextParams]_vars

(***************************************************************************)
(* Transitions: fetching the transitions of a ticket and applying one.     *)
(***************************************************************************)
TransitionKeys == {CharKey("s"), Key("Down"), Key("Enter"), Key("Esc")}

NextTransitions ==
    \/ Paced /\ KeyInput(TransitionKeys, MaxTransitionKeys)
    \/ ActorStep
    \/ Paced /\ TicketsFetched({<<Issue1, Issue2>>})
    \/ Paced /\ TransitionsFetched({<<Transition1, Transition2>>})
    \/ Paced /\ TransitionDone
    \/ TaskFails

SpecTransitions == Init /\ [][NextTransitions]_vars

(***************************************************************************)
(* Applying a transition while a refetch of the tickets may answer.        *)
(***************************************************************************)
ApplyKeys == {CharKey("r"), CharKey("s"), Key("Enter"), Key("Esc")}

NextApply ==
    \/ Paced /\ KeyInput(ApplyKeys, MaxApplyKeys)
    \/ ActorStep
    \/ Paced /\ TicketsFetched({<<>>, <<Issue1, Issue2>>})
    \/ Paced /\ TransitionsFetched({<<Transition1, Transition2>>})
    \/ Paced /\ TransitionDone
    \/ TaskFails

SpecApply == Init /\ [][NextApply]_vars

(***************************************************************************)
(* Quitting: keys sent at the terminal's pace, the renderer draining the   *)
(* snapshot channel. The actor's task owns every sender of the snapshot    *)
(* channel (state.rs:27-29), so the channel closes when the task ends, and *)
(* recv() answers None once it is closed and empty: the rendering loop     *)
(* (ui.rs:262-264) ends. terminal.draw returns, so a waiting snapshot is   *)
(* eventually drawn: weak fairness of Render.                              *)
(***************************************************************************)
QuitKeys == {CharKey("q"), Key("Down")}

RenderLoopEnded == ~ActorLives /\ chan = <<>>

NextQuit ==
    \/ KeyInput(QuitKeys, MaxQuitKeys)
    \/ ActorStep
    \/ Render
    \/ TicketsFetched({<<Issue1, Issue2>>})
    \/ BranchesFetched({FullRepo})

SpecQuit == Init /\ [][NextQuit]_vars /\ WF_vars(Render)

(***************************************************************************)
(* Properties.                                                             *)
(***************************************************************************)
Lists == {state.issues, state.boards, state.branches, state.transitions}
CursorValid(l) == l.sel = None \/ Unwrap(l.sel) < Len(l.items)
ActorHasStepped == last.ev # NoEvent
Sentinel == BranchSummary(CreateNew)

\* C1: in every reachable state the cursor of each of the four lists is
\* absent or a valid index into the list's items (so it is absent when the
\* list is empty).
C1_CursorsValid == \A l \in Lists : CursorValid(l)

\* C2: right after the actor has applied a BranchesUpdated event the branch
\* list is the fetched branches, in order, followed by one "Create New" entry.
C2_SentinelAppended ==
    last.ev.type = "BranchesUpdated" =>
        state.branches.items = Append(last.ev.items, Sentinel)

\* C2 witness: an empty fetched set has been applied over a list that held
\* real branches.
C2_Witness ==
    /\ last.ev.type = "BranchesUpdated"
    /\ last.ev.items = <<>>
    /\ Len(last.pre.branches.items) > 1
    /\ state.branches.items = <<Sentinel>>

\* C4: the branch list, when not empty, is the result of the lookup whose
\* event the actor applied last with the sentinel appended, whether or not
\* that lookup was made for the ticket now selected.
C4_LastArrivalWins ==
    state.branches.items # <<>> =>
        state.branches.items = Append(branchesFrom.items, Sentinel)

\* C4 witness: two lookups started by Down keys were pending together, the
\* event of the later one was applied first, and the list now shows the
\* branches of the earlier one, whose ticket is no longer the selected one.
C4_Witness ==
    /\ last.ev.type = "BranchesUpdated"
    /\ branchesFrom.id > 2
    /\ branchesFrom.id < branchesFrom.prevId
    /\ IsSome(selected_issue_key(state))
    /\ branchesFrom.key # Unwrap(selected_issue_key(state))
    /\ Len(state.branches.items) > 1
    /\ state.branches.items = Append(branchesFrom.items, Sentinel)

\* the snapshot published last
LatestSnapshot == IF chan # <<>> THEN chan[Len(chan)] ELSE drawn[Len(drawn)]

\* C6 as stated: after every event the actor has taken, once it is not
\* suspended in the publication, one snapshot per event has been published
\* and the latest equals the state.
C6_SnapshotAfterEveryEvent ==
    (ActorHasStepped /\ pc # "send") =>
        /\ pubs = Len(applied) + 1
        /\ LatestSnapshot.st = state

\* C6 amended: after every event that leaves the actor running, one snapshot
\* per event has been published and the latest equals the state reached; the
\* event that ends the loop is followed by no snapshot.
C6_SnapshotAfterContinue ==
    /\ pc = "recv" => /\ pubs = Len(applied) + 1
                      /\ LatestSnapshot.st = state
                      /\ LatestSnapshot.n = Len(applied)
    /\ pc \in {"done", "panicked"} => pubs = Len(applied)

\* C6 witness: a completion event and a key event have each been followed
\* by their snapshot.
C6_Witness ==
    /\ pc = "recv"
    /\ last.ev.type = "KeyEvent"
    /\ last.pre # state
    /\ Len(applied) > 2
    /\ LatestSnapshot.st = state
    /\ pubs = Len(applied) + 1

\* C3: right after the actor has applied an IssuesUpdated event with a
\* non-empty list the ticket cursor is on index 0 and the step has started
\* exactly one branch lookup, for the key of the first ticket; with an empty
\* list the step has started no task.
C3_FirstTicketLookedUp ==
    last.ev.type = "IssuesUpdated" =>
        IF last.ev.items # <<>>
        THEN /\ state.issues.items = last.ev.items
             /\ state.issues.sel = Some(0)
             /\ Cardinality(last.spawn) = 1
             /\ \A t \in last.spawn :
                   /\ t.kind = "find_relevant_branches"
                   /\ t.key = last.ev.items[1].key
        ELSE last.spawn = {}

\* C3 witness: a second fetch has been applied while the cursor was on the
\* second ticket, and the lookup for the first ticket has been started.
C3_Witness ==
    /\ last.ev.type = "IssuesUpdated"
    /\ last.ev.items # <<>>
    /\ last.pre.issues.sel = Some(1)
    /\ state.issues.sel = Some(0)
    /\ \E t \in last.spawn : t.key = KeyA /\ t \in tasks

\* C5: the actor takes the events in the order of their commit to the bus
\* (the k-th event taken is the k-th committed, the waiting ones follow in
\* order), and it takes an event only when the snapshots of all the events
\* taken before have been published.
C5_AppliedInCommitOrder ==
    /\ \A i \in 1..Len(applied) : applied[i] = i
    /\ ActorLives => \A i \in 1..Len(bus) : bus[i].n = Len(applied) + i
    /\ Len(applied) <= pubs
    /\ pc = "recv" => pubs = Len(applied) + 1

\* C5 witness: the actor has taken the first event while events of both
\* producers wait on the bus, the fetch task's between two key events.
C5_Witness ==
    /\ Len(applied) = 1
    /\ pubs = 2
    /\ Len(bus) >= 3
    /\ bus[1].type = "KeyEvent"
    /\ bus[2].type = "IssuesUpdated"
    /\ bus[3].type = "KeyEvent"

\* C7 as stated, its second part: while the snapshot channel is full the
\* actor takes no event from the bus.
C7_NoEventTakenWhileFull ==
    [][Len(chan) = SnapshotCapacity => applied' = applied]_vars

\* C7 amended: the channel never holds more than its capacity; the actor is
\* at most one event ahead of its publications, and when it is that event's
\* snapshot is the one it is suspended on, so that the events taken never
\* exceed the snapshots drawn plus the capacity; and the snapshots drawn
\* followed by those waiting are all the snapshots published, in order.
C7_BackPressure ==
    /\ Len(chan) <= SnapshotCapacity
    /\ Len(applied) <= pubs
    /\ pc = "send" <=> Len(applied) = pubs
    /\ Len(applied) <= Len(drawn) + SnapshotCapacity
    /\ Len(drawn \o chan) = pubs
    /\ \A i \in 1..pubs : (drawn \o chan)[i].n = i - 1

\* C7 witness: the channel is full, the actor is suspended in the
\* publication of the one event it took, and an event waits on the bus.
C7_Witness ==
    /\ Len(chan) = SnapshotCapacity
    /\ pc = "send"
    /\ bus # <<>>
    /\ drawn # <<>>

\* C8: in Editing mode with a ticket selected, the branch name Enter uses is
\* the ticket key, "-", and the text typed since the mode was entered.
C8_NameIsKeyDashTyped ==
    (state.input_mode = "Editing" /\ IsSome(selected_issue_key(state))) =>
        new_branch_name(state) =
            Unwrap(selected_issue_key(state)) \o <<"-">> \o typed

\* the fields a completion event leaves alone
SameModeFocusInputConfig(a, b) ==
    /\ a.input_mode = b.input_mode
    /\ a.issues_focused = b.issues_focused
    /\ a.input = b.input
    /\ a.config = b.config

\* C9: in whatever mode the actor applies them, IssuesUpdated, BoardsUpdated,
\* BranchesUpdated and TransitionsFetched replace the items of their list by
\* the delivered items (the branch list with the sentinel appended) and
\* leave the input mode, the focus flag, the text buffer and the config.
C9_CompletionsNotGated ==
    /\ last.ev.type = "IssuesUpdated" => state.issues.items = last.ev.items
    /\ last.ev.type = "BoardsUpdated" => state.boards.items = last.ev.items
    /\ last.ev.type = "BranchesUpdated" =>
          state.branches.items = Append(last.ev.items, Sentinel)
    /\ last.ev.type = "TransitionsFetched" =>
          state.transitions.items = last.ev.items
    /\ last.ev.type \in {"IssuesUpdated", "BoardsUpdated", "BranchesUpdated",
                         "TransitionsFetched"} =>
          SameModeFocusInputConfig(last.pre, state)

\* C9 witness: transitions fetched for the status view have been applied in
\* Editing mode.
C9_Witness ==
    /\ last.ev.type = "TransitionsFetched"
    /\ last.pre.input_mode = "Editing"
    /\ last.pre.transitions.items = <<>>
    /\ state.transitions.items = last.ev.items
    /\ state.transitions.items # <<>>
    /\ state.input_mode = "Editing"

EventOf(kind) ==
    CASE kind = "fetch_tickets" -> "IssuesUpdated"
      [] kind = "fetch_boards" -> "BoardsUpdated"
      [] kind = "fetch_transitions" -> "TransitionsFetched"
      [] kind = "find_relevant_branches" -> "BranchesUpdated"
      [] kind = "do_selected_transition" -> "TransitionExecuted"

\* C11: the step in which a fetch task ends leaves the application state,
\* starts no task (no retry) and commits either nothing or exactly one event,
\* of the task's own kind; an event of a fetch is committed only by the step
\* that ends its task, and a task that has ended never runs again (new tasks
\* are new operations), so each operation commits at most one event.
C11_OneEventPerFetch ==
    [][/\ \A t \in tasks \ tasks' :
            /\ state' = state
            /\ tasks' = tasks \ {t}
            /\ \/ bus' = bus /\ committed' = committed
               \/ /\ bus' = Append(bus, bus'[Len(bus')])
                  /\ committed' = committed + 1
                  /\ bus'[Len(bus')].id = t.id
                  /\ bus'[Len(bus')].type = EventOf(t.kind)
       /\ Len(bus') > Len(bus) /\ bus'[Len(bus')].id # 0 =>
            \E t \in tasks \ tasks' : t.id = bus'[Len(bus')].id
       /\ \A t \in tasks' \ tasks : t.id > nextId
       /\ \A t \in tasks' : \A e \in ended' : t.id # e.id]_vars

\* C11 witness: the transition fetch has failed, leaving the transitions
\* list as it was, after the ticket fetch and a branch lookup had succeeded.
C11_Witness ==
    /\ \E e \in ended : e.kind = "fetch_transitions" /\ e.how = "failed"
    /\ \E e \in ended : e.kind = "fetch_tickets" /\ e.how = "sent"
    /\ \E e \in ended : e.kind = "find_relevant_branches" /\ e.how = "sent"
    /\ state.input_mode = "UpdateIssueStatus"
    /\ state.transitions = ListNew
    /\ tasks = {}
    /\ bus = <<>>

\* the last step is Enter that uses the repository: in Editing mode, or in
\* IssuesList mode with branch focus on a real branch
EnterUsesRepo ==
    /\ last.ev.type = "KeyEvent"
    /\ last.ev.code = Key("Enter")
    /\ \/ last.pre.input_mode = "Editing"
       \/ /\ last.pre.input_mode = "IssuesList"
          /\ ~last.pre.issues_focused
          /\ InRange(last.pre.branches)
          /\ ItemAt(last.pre.branches).name # CreateNew

\* the last step has called save_config
StepSavesConfig ==
    /\ last.ev.type = "KeyEvent"
    /\ \/ /\ last.pre.input_mode = "IssuesList"
          /\ last.ev.code \in {CharKey("i"), CharKey("m")}
       \/ /\ last.pre.input_mode = "EditingDefaultProject"
          /\ last.ev.code = Key("Enter")

\* a collaborator call of the last step has failed
CollaboratorFailed ==
    \/ EnterUsesRepo /\ (last.env.repo = "err" \/ last.env.git = "err")
    \/ StepSavesConfig /\ last.env.save = "err"

\* C12: after a step in which the repository discovery, the checkout, the
\* branch creation or the config save has failed, the actor is still running.
C12_FailuresDoNotStopActor ==
    CollaboratorFailed => ActorLives

\* the three cases in which the step is to end the actor
QuitCase ==
    /\ last.ev.type = "KeyEvent"
    /\ \/ last.pre.input_mode = "IssuesList" /\ last.ev.code = CharKey("q")
       \/ EnterUsesRepo /\ last.env.repo = "ok" /\ last.env.git = "ok"

\* C13: the outcome of a step is Quit in the three cases (q in IssuesList
\* mode, Enter on a real branch whose checkout succeeds, Enter in Editing mode
\* whose branch creation succeeds) and Continue in every other case.
C13_QuitInThreeCasesOnly ==
    ActorHasStepped =>
        /\ QuitCase => last.out = "Quit"
        /\ ~QuitCase => last.out = "Continue"

\* the last step is the toggle key c of IssuesList mode
ToggleStep(c) ==
    /\ last.ev.type = "KeyEvent"
    /\ last.ev.code = CharKey(c)
    /\ last.pre.input_mode = "IssuesList"

\* the config with one flag negated
Negated(config, c) ==
    IF c = "i"
    THEN [config EXCEPT !.filter_in_progress = ~config.filter_in_progress]
    ELSE [config EXCEPT !.filter_mine = ~config.filter_mine]

\* the toggle's effects on the State and the tasks
ToggledAndFetched(c) ==
    /\ state.config = Negated(last.pre.config, c)
    /\ Cardinality(last.spawn) = 1
    /\ \A t \in last.spawn :
          /\ t.kind = "fetch_tickets"
          /\ t.st.config = state.config
          /\ QueryOf(t) = current_issues_query(Negated(last.pre.config, c))
    /\ state.input_mode = last.pre.input_mode
    /\ state.issues = last.pre.issues
    /\ state.boards = last.pre.boards
    /\ state.branches = last.pre.branches
    /\ state.transitions = last.pre.transitions
    /\ state.issues_focused = last.pre.issues_focused

\* C14 as stated: after i or m in IssuesList mode the flag is negated, the
\* config file holds the resulting config, one ticket fetch has been started
\* with the resulting config, and the mode, the lists and the focus are as
\* before.
C14_TogglePersistsAndRefetches ==
    \A c \in {"i", "m"} :
        ToggleStep(c) => ToggledAndFetched(c) /\ disk = state.config

\* C14 amended: the same, the config file holding the resulting config when
\* the write succeeds; a failed write is ignored, the flag stays negated in
\* memory and the fetch is started all the same.
C14_ToggleRefetches ==
    \A c \in {"i", "m"} :
        ToggleStep(c) =>
            /\ ToggledAndFetched(c)
            /\ last.env.save = "ok" => disk = state.config

\* C14 witness: m has been applied over fetched tickets, the file holds the
\* negated flag and the fetch started holds it too.
C14_Witness ==
    /\ ToggleStep("m")
    /\ last.pre.config.filter_mine
    /\ ~state.config.filter_mine
    /\ ~disk.filter_mine
    /\ state.issues.items # <<>>
    /\ \E t \in last.spawn : t \in tasks /\ ~t.st.config.filter_mine

\* the number of places of s at which sub occurs
Occurrences(s, sub) ==
    Cardinality({i \in 1..Len(s) :
                    /\ i + Len(sub) - 1 <= Len(s)
                    /\ SubSeq(s, i, i + Len(sub) - 1) = sub})

\* "assignee=currentuser() AND status=3"
MineInProgressQuery ==
    <<"a", "s", "s", "i", "g", "n", "e", "e", "=", "c", "u", "r", "r", "e",
      "n", "t", "u", "s", "e", "r", "(", ")", " ", "A", "N", "D", " ", "s",
      "t", "a", "t", "u", "s", "=", "3">>

\* "assignee=currentuser() AND status=3 AND project = \"O\""
MineInProgressProjectQuery ==
    <<"a", "s", "s", "i", "g", "n", "e", "e", "=", "c", "u", "r", "r", "e",
      "n", "t", "u", "s", "e", "r", "(", ")", " ", "A", "N", "D", " ", "s",
      "t", "a", "t", "u", "s", "=", "3", " ", "A", "N", "D", " ", "p", "r",
      "o", "j", "e", "c", "t", " ", "=", " ", "\"", "O", "\"">>

\* "status=\"Prioritised\""
PrioritisedOnlyQuery ==
    <<"s", "t", "a", "t", "u", "s", "=", "\"", "P", "r", "i", "o", "r",
      "i", "t", "i", "s", "e", "d", "\"">>

\* the query the clauses of the claim give for a config
ClausesJoined(config) ==
    LET and == <<" ", "A", "N", "D", " ">>
        status == IF config.filter_in_progress
                  THEN <<"s", "t", "a", "t", "u", "s", "=", "3">>
                  ELSE PrioritisedOnlyQuery
        mine == IF config.filter_mine
                THEN <<"a", "s", "s", "i", "g", "n", "e", "e", "=",
                       "c", "u", "r", "r", "e", "n", "t", "u", "s", "e", "r",
                       "(", ")">> \o and \o status
                ELSE status
    IN  IF config.default_project_key # <<>>
        THEN mine \o and
                  \o <<"p", "r", "o", "j", "e", "c", "t", " ", "=", " ", "\"">>
                  \o config.default_project_key \o <<"\"">>
        ELSE mine

\* C15: the query of every ticket fetch is the clauses of its config in the
\* order assignee, status, project, joined by " AND ", with exactly one
\* status clause; (mine, in progress, no project) gives
\* "assignee=currentuser() AND status=3" and project "O" adds
\* " AND project = \"O\"".
C15_QueryFromConfig ==
    \A e \in ended :
        e.kind = "fetch_tickets" =>
            /\ e.query = ClausesJoined(e.config)
            /\ Occurrences(e.query, <<"s", "t", "a", "t", "u", "s", "=">>) = 1
            /\ (e.config.filter_mine /\ e.config.filter_in_progress) =>
                  e.query = IF e.config.default_project_key = <<>>
                            THEN MineInProgressQuery
                            ELSE IF e.config.default_project_key = <<"O">>
                            THEN MineInProgressProjectQuery
                            ELSE e.query
            /\ (~e.config.filter_mine /\ ~e.config.filter_in_progress
                  /\ e.config.default_project_key = <<>>) =>
                  e.query = PrioritisedOnlyQuery

\* C15 witness: ticket fetches have run with the project key "O" and both
\* filters on, and with the project key "O" and the mine-only filter off.
C15_Witness ==
    /\ \E e \in ended :
          /\ e.kind = "fetch_tickets"
          /\ e.config.default_project_key = <<"O">>
          /\ e.config.filter_mine /\ e.config.filter_in_progress
          /\ e.query = MineInProgressProjectQuery
    /\ \E e \in ended :
          /\ e.kind = "fetch_tickets"
          /\ e.config.default_project_key = <<"O">>
          /\ ~e.config.filter_mine /\ e.config.filter_in_progress

\* C16: no producer task fails because of a send on the event bus: a send
\* made once the actor has stopped is ignored by the fetch task that makes it.
C16_SendAfterStopIgnored ==
    \A e \in ended : e.how # "send_panicked"

\* C17: the State changes only in a step in which the actor takes an event
\* (no step of a fetch task, of the key-input task or of the rendering loop
\* changes it), and the snapshots published so far, drawn or waiting, stay
\* what they were whatever the actor and the renderer do later.
C17_OnlyActorChangesState ==
    [][/\ state' # state =>
            /\ pc = "recv"
            /\ Len(applied') = Len(applied) + 1
            /\ tasks \subseteq tasks'
            /\ keysSent' = keysSent
            /\ drawn' = drawn
       /\ Len(drawn' \o chan') >= Len(drawn \o chan)
       /\ SubSeq(drawn' \o chan', 1, Len(drawn \o chan)) = drawn \o chan]_vars

\* C17 witness: the priming snapshot has been drawn and still shows the
\* initial State, while the actor's State has changed twice since and later
\* snapshots wait in the channel.
C17_Witness ==
    /\ Len(drawn) >= 2
    /\ drawn[1].st = StateNew(DefaultConfig)
    /\ drawn[2].st # drawn[1].st
    /\ state # drawn[2].st
    /\ chan # <<>>
    /\ \E e \in ended : e.how = "sent"

\* C18: after the actor processes a BoardsUpdated event with a non-empty list,
\* the board list holds exactly the delivered boards and its cursor is on the
\* first element, whatever the cursor was before.
C18_BoardsCursorOnFirst ==
    (/\ ActorHasStepped
     /\ last.ev.type = "BoardsUpdated"
     /\ last.ev.items # <<>>)
        => /\ state.boards.items = last.ev.items
           /\ state.boards.sel = Some(0)

\* what the claim says of advance(): pre is the list before, post after
AdvanceCase(pre, post) ==
    LET n == Len(pre.items)
    IN  /\ post.items = pre.items
        /\ n = 0 => post.sel = None
        /\ (n > 0 /\ pre.sel = None) => post.sel = Some(0)
        /\ (n > 0 /\ pre.sel = Some(n - 1)) => post.sel = Some(0)
        /\ (n > 0 /\ pre.sel # None /\ pre.sel # Some(n - 1)) =>
               post.sel = Some(Unwrap(pre.sel) + 1)

\* what the claim says of retreat()
RetreatCase(pre, post) ==
    LET n == Len(pre.items)
    IN  /\ post.items = pre.items
        /\ n = 0 => post.sel = None
        /\ (n > 0 /\ pre.sel = Some(0)) => post.sel = Some(n - 1)
        /\ (n > 0 /\ pre.sel # None /\ pre.sel # Some(0)) =>
               post.sel = Some(Unwrap(pre.sel) - 1)

\* what the claim says of clear_selection()
ClearCase(pre, post) == post.items = pre.items /\ post.sel = None

\* the last actor step handled this arrow key in IssuesList mode
ArrowStep(kind, focused) ==
    /\ ActorHasStepped
    /\ last.ev.type = "KeyEvent"
    /\ last.ev.code = Key(kind)
    /\ last.pre.input_mode = "IssuesList"
    /\ last.pre.issues_focused = focused

\* C19: on a selection list of n items whose cursor is absent or one of its
\* indices, next() leaves the cursor absent when n = 0, selects index 0 from
\* an absent cursor, index 0 from index n-1 and index+1 otherwise; previous()
\* leaves it absent when n = 0, gives n-1 from index 0 and index-1 otherwise;
\* unselect() makes it absent; none of them changes the items.  Down, Up and
\* Left apply them to the focused list.
C19_CursorMoves ==
    /\ (ArrowStep("Down", TRUE) /\ CursorValid(last.pre.issues))
          => AdvanceCase(last.pre.issues, state.issues)
    /\ (ArrowStep("Down", FALSE) /\ CursorValid(last.pre.branches))
          => AdvanceCase(last.pre.branches, state.branches)
    /\ (ArrowStep("Up", TRUE) /\ CursorValid(last.pre.issues))
          => RetreatCase(last.pre.issues, state.issues)
    /\ (ArrowStep("Up", FALSE) /\ CursorValid(last.pre.branches))
          => RetreatCase(last.pre.branches, state.branches)
    /\ ArrowStep("Left", TRUE) => ClearCase(last.pre.issues, state.issues)
    /\ ArrowStep("Left", FALSE) => ClearCase(last.pre.branches, state.branches)

\* C19 witness: Up on the first of three branches has wrapped to the last.
C19_Witness ==
    /\ ArrowStep("Up", FALSE)
    /\ Len(last.pre.branches.items) = 3
    /\ last.pre.branches.sel = Some(0)
    /\ state.branches.sel = Some(2)

\* the last actor step handled Enter in IssuesList mode
EnterStep ==
    /\ ActorHasStepped
    /\ last.ev.type = "KeyEvent"
    /\ last.ev.code = Key("Enter")
    /\ last.pre.input_mode = "IssuesList"

\* the step called checkout_branch with this name and nothing else of git
CheckedOut(name) == last.git = <<[op |-> "checkout_branch", name |-> name]>>

\* C20: Enter in IssuesList mode acts by focus.  With ticket-list focus the
\* branch cursor advances and the focus moves to the branch list, the mode and
\* everything else staying.  With branch-list focus: on the sentinel the mode
\* becomes Editing and nothing else changes; on a real branch the only git
\* call is the checkout of that branch, made whenever the repository is
\* found, and the actor ends by Quit exactly when that checkout succeeds, the
\* State staying; with no branch selected nothing changes and nothing is
\* called.
C20_EnterByFocus ==
    EnterStep =>
        LET pre == last.pre
        IN  /\ pre.issues_focused =>
                  /\ state = [pre EXCEPT !.branches = state.branches,
                                         !.issues_focused = FALSE]
                  /\ state.branches.items = pre.branches.items
                  /\ CursorValid(pre.branches) =>
                         AdvanceCase(pre.branches, state.branches)
                  /\ last.out = "Continue" /\ last.git = <<>>
            /\ (~pre.issues_focused /\ InRange(pre.branches)
                   /\ ItemAt(pre.branches) = Sentinel) =>
                  /\ state = [pre EXCEPT !.input_mode = "Editing"]
                  /\ last.out = "Continue" /\ last.git = <<>>
            /\ (~pre.issues_focused /\ InRange(pre.branches)
                   /\ ItemAt(pre.branches) # Sentinel) =>
                  /\ state = pre
                  /\ last.git # <<>> => CheckedOut(ItemAt(pre.branches).name)
                  /\ last.env.repo = "ok" => CheckedOut(ItemAt(pre.branches).name)
                  /\ last.out = "Quit" <=>
                         (CheckedOut(ItemAt(pre.branches).name)
                            /\ last.env.git = "ok")
                  /\ last.out = "Quit" => pc = "done"
            /\ (~pre.issues_focused /\ pre.branches.sel = None) =>
                  /\ state = pre
                  /\ last.out = "Continue" /\ last.git = <<>>
                  /\ last.spawn = {}

\* C20 witness: Enter on a real branch checked it out and the actor ended.
C20_Witness ==
    /\ EnterStep
    /\ ~last.pre.issues_focused
    /\ InRange(last.pre.branches)
    /\ CheckedOut(<<"A", "-", "1", "-", "x">>)
    /\ last.out = "Quit"
    /\ pc = "done"

\* the tasks the last step started are one branch lookup for this key
OneLookupFor(key) ==
    /\ Cardinality(last.spawn) = 1
    /\ \A t \in last.spawn :
          t.kind = "find_relevant_branches" /\ t.key = key

\* C21: in IssuesList mode with ticket-list focus, Up and Down move the ticket
\* cursor (nothing else of the State) and start exactly one branch lookup, for
\* the key of the ticket selected after the move, and none when no ticket is
\* selected then; with branch-list focus they move only the branch cursor,
\* start no task and leave the ticket list as it was.
C21_UpDownLookup ==
    /\ (ArrowStep("Down", TRUE) \/ ArrowStep("Up", TRUE)) =>
          /\ state = [last.pre EXCEPT !.issues.sel = state.issues.sel]
          /\ ArrowStep("Down", TRUE) =>
                AdvanceCase(last.pre.issues, state.issues)
          /\ ArrowStep("Up", TRUE) =>
                RetreatCase(last.pre.issues, state.issues)
          /\ IF state.issues.sel = None
             THEN last.spawn = {}
             ELSE OneLookupFor(state.issues.items[Unwrap(state.issues.sel) + 1].key)
          /\ last.out = "Continue"
    /\ (ArrowStep("Down", FALSE) \/ ArrowStep("Up", FALSE)) =>
          /\ state = [last.pre EXCEPT !.branches.sel = state.branches.sel]
          /\ (ArrowStep("Down", FALSE) /\ CursorValid(last.pre.branches)) =>
                AdvanceCase(last.pre.branches, state.branches)
          /\ (ArrowStep("Up", FALSE) /\ CursorValid(last.pre.branches)) =>
                RetreatCase(last.pre.branches, state.branches)
          /\ last.spawn = {}
          /\ last.out = "Continue"

\* C21 witness: Down moved the ticket cursor from the first ticket to the
\* second and the lookup for the second ticket's key is running.
C21_Witness ==
    /\ ArrowStep("Down", TRUE)
    /\ last.pre.issues.sel = Some(0)
    /\ state.issues.sel = Some(1)
    /\ OneLookupFor(KeyB)
    /\ \E t \in tasks : t \in last.spawn

\* the last actor step handled this key in this mode
KeyStep(code, mode) ==
    /\ ActorHasStepped
    /\ last.ev.type = "KeyEvent"
    /\ last.ev.code = code
    /\ last.pre.input_mode = mode

\* C22: in IssuesList mode each of the keys c and p sets the mode to
\* EditingDefaultProject and the text buffer to the config's default project
\* key, changes nothing else and starts no fetch.
C22_ProjectKeysOpenEntry ==
    (KeyStep(CharKey("c"), "IssuesList") \/ KeyStep(CharKey("p"), "IssuesList")) =>
        /\ state = [last.pre EXCEPT
                        !.input_mode = "EditingDefaultProject",
                        !.input = last.pre.config.default_project_key]
        /\ last.spawn = {}
        /\ last.out = "Continue"

\* the project clause of a query for this key: " AND project = \"key\"" at
\* the end of the query, no project clause for the empty key
QueryNamesProject(query, key) ==
    LET clause == <<" ", "A", "N", "D", " ", "p", "r", "o", "j", "e", "c", "t",
                    " ", "=", " ", "\"">> \o key \o <<"\"">>
    IN  IF key = <<>>
        THEN Occurrences(query, <<"p", "r", "o", "j", "e", "c", "t">>) = 0
        ELSE /\ Len(query) > Len(clause)
             /\ SubSeq(query, Len(query) - Len(clause) + 1, Len(query)) = clause
             /\ Occurrences(query, <<"p", "r", "o", "j", "e", "c", "t">>) = 1

\* C23: in EditingDefaultProject mode, Enter with a successful save sets the
\* config's default project key to the text buffer and the mode to
\* IssuesList, changing nothing else; the config file then holds that config;
\* exactly one task is started, a ticket fetch holding the new config, and the
\* query it searches with, once it has ended, names the new key.
C23_EnterSavesProjectKey ==
    (KeyStep(Key("Enter"), "EditingDefaultProject") /\ last.env.save = "ok") =>
        /\ state = [last.pre EXCEPT
                        !.config.default_project_key = last.pre.input,
                        !.input_mode = "IssuesList"]
        /\ disk = state.config
        /\ last.out = "Continue"
        /\ Cardinality(last.spawn) = 1
        /\ \A t \in last.spawn :
              /\ t.kind = "fetch_tickets"
              /\ t.st.config = state.config
              /\ t \in tasks \/ \E e \in ended : e.id = t.id
              /\ \A e \in ended :
                    e.id = t.id /\ e.how # "failed" =>
                        QueryNamesProject(e.query, last.pre.input)

\* C23 witness: the key "Ox" typed over the stored "O" has been saved and the
\* ticket fetch started by Enter has delivered its tickets.
C23_Witness ==
    /\ KeyStep(Key("Enter"), "EditingDefaultProject")
    /\ last.env.save = "ok"
    /\ last.pre.config.default_project_key = <<"O">>
    /\ state.config.default_project_key = <<"O", "x">>
    /\ disk = state.config
    /\ \E t \in last.spawn : \E e \in ended : e.id = t.id /\ e.how = "sent"

\* the events on the bus that task t has sent
SentBy(t) == {i \in 1..Len(bus) : bus[i].id = t.id}

\* C24: in IssuesList mode key s sets the mode to UpdateIssueStatus, changing
\* nothing else, and starts exactly one task, a transition fetch holding the
\* ticket list as it is at that moment; the event that task sends is a
\* TransitionsFetched for the key of the ticket selected at that moment, and
\* with no ticket selected the task sends no event and ends without one.
C24_StatusKeyFetchesTransitions ==
    KeyStep(CharKey("s"), "IssuesList") =>
        /\ state = [last.pre EXCEPT !.input_mode = "UpdateIssueStatus"]
        /\ last.out = "Continue"
        /\ Cardinality(last.spawn) = 1
        /\ \A t \in last.spawn :
              /\ t.kind = "fetch_transitions"
              /\ t.st.issues = last.pre.issues
              /\ t \in tasks \/ \E e \in ended : e.id = t.id
              /\ IF last.pre.issues.sel = None
                 THEN /\ SentBy(t) = {}
                      /\ \A e \in ended : e.id = t.id => e.how = "failed"
                 ELSE \A i \in SentBy(t) :
                        /\ bus[i].type = "TransitionsFetched"
                        /\ bus[i].key =
                             last.pre.issues.items[Unwrap(last.pre.issues.sel) + 1].key

\* C24 witness: s was pressed on the first ticket and the TransitionsFetched
\* for its key waits on the bus.
C24_Witness ==
    /\ KeyStep(CharKey("s"), "IssuesList")
    /\ last.pre.issues.sel = Some(0)
    /\ state.input_mode = "UpdateIssueStatus"
    /\ \E t \in last.spawn : \E i \in SentBy(t) :
          bus[i].type = "TransitionsFetched" /\ bus[i].key = KeyA

\* C25: in BoardsList, UpdateIssueStatus, Editing and EditingDefaultProject
\* mode Esc sets the mode to IssuesList and leaves the lists, their cursors,
\* the config, the focus flag and the text buffer as they were, starting
\* nothing; in IssuesList mode Esc changes nothing; an event that is not a key
\* leaves IssuesList mode and the actor as they are; and q in IssuesList mode
\* ends the actor: so the q that follows an Esc ends the actor, whatever
\* completions arrive between the two.
C25_EscThenQuit ==
    [][last' # last =>
          LET ev == last'.ev
              pre == last'.pre
              isKey == ev.type = "KeyEvent"
          IN  /\ pre = state
              /\ (isKey /\ ev.code = Key("Esc")) =>
                    /\ state' = [pre EXCEPT !.input_mode = "IssuesList"]
                    /\ last'.spawn = {}
                    /\ pc' \in {"recv", "send"}
              /\ (~isKey /\ pre.input_mode = "IssuesList") =>
                    /\ state'.input_mode = "IssuesList"
                    /\ pc' \in {"recv", "send"}
              /\ (isKey /\ ev.code = CharKey("q")
                     /\ pre.input_mode = "IssuesList") =>
                    /\ pc' = "done"
                    /\ last'.out = "Quit"
              /\ (isKey /\ ev.code = CharKey("q") /\ last.ev.type = "KeyEvent"
                     /\ last.ev.code = Key("Esc")) =>
                    pc' = "done"]_vars

\* C25 witness: Esc has left Editing mode, reached by Enter on the sentinel,
\* and the q that followed has ended the actor.
C25_Witness ==
    /\ KeyStep(CharKey("q"), "IssuesList")
    /\ pc = "done"
    /\ keysSent = 4
    /\ ~state.issues_focused
    /\ InRange(state.branches)
    /\ ItemAt(state.branches) = Sentinel
    /\ state.input = <<>>

\* C26: key o in IssuesList mode and in BoardsList mode leaves the whole
\* State unchanged, starts no fetch and lets the actor go on, also when the
\* list of the mode is empty or has no selection.
C26_OpenChangesNothing ==
    (KeyStep(CharKey("o"), "IssuesList") \/ KeyStep(CharKey("o"), "BoardsList")) =>
        /\ state = last.pre
        /\ last.spawn = {}
        /\ last.out = "Continue"
        /\ ActorLives

\* the key of the ticket selected in a State
SelectedKeyIs(st, key) == InRange(st.issues) /\ ItemAt(st.issues).key = key

StartupState(config) ==
    [issues |-> [items |-> <<>>, sel |-> <<>>],
     boards |-> [items |-> <<>>, sel |-> <<>>],
     branches |-> [items |-> <<>>, sel |-> <<>>],
     transitions |-> [items |-> <<>>, sel |-> <<>>],
     issues_focused |-> TRUE,
     input_mode |-> "IssuesList",
     input |-> <<>>,
     config |-> config]

\* C28: until the actor has taken its first event the State is the startup
\* State of the loaded config (four empty lists without cursor, IssuesList
\* mode, ticket-list focus, empty buffer), exactly one snapshot has been
\* published and exactly one task started; in every state the first snapshot
\* published is that startup State, and the first task started is a ticket
\* fetch holding it, the only task there is that was started with no event
\* taken.
C28_Startup ==
    LET published == drawn \o chan
        started == {[id |-> t.id, kind |-> t.kind, config |-> t.st.config] :
                       t \in tasks}
                   \cup {[id |-> e.id, kind |-> e.kind, config |-> e.config] :
                            e \in ended}
    IN  /\ published # <<>>
        /\ published[1].n = 0
        /\ published[1].st \in {StartupState(c) : c \in LoadableConfigs}
        /\ [id |-> 1, kind |-> "fetch_tickets",
            config |-> published[1].st.config] \in started
        /\ \A a \in started : a.id = 1 => a.kind = "fetch_tickets"
        /\ \A t \in tasks : t.id = 1 => t.st = published[1].st
        /\ applied = <<>> =>
              /\ state = published[1].st
              /\ disk = state.config
              /\ Len(published) = 1
              /\ Cardinality(started) = 1

\* C28 witness: the stored config was loaded, its first ticket fetch has
\* delivered and the actor has since changed the config.
C28_Witness ==
    /\ chan # <<>>
    /\ chan[1].st = StartupState(StoredConfig)
    /\ applied # <<>>
    /\ state.config # StoredConfig
    /\ state.issues.items # <<>>
    /\ \E e \in ended : e.id = 1 /\ e.how = "sent" /\ e.config = StoredConfig

\* C29: whenever the mode is Editing a ticket is selected, and a branch
\* created by Enter in Editing mode is never named "unhandled-error": its name
\* starts with the key of the selected ticket.
C29_EditingHasTicket ==
    /\ state.input_mode = "Editing" =>
          state.issues.sel # None /\ InRange(state.issues)
    /\ (KeyStep(Key("Enter"), "Editing") /\ last.git # <<>>) =>
          /\ last.git[1].name # UnhandledError
          /\ InRange(last.pre.issues)
          /\ StartsWith(last.git[1].name, ItemAt(last.pre.issues).key)

\* C30: in every reachable state a non-empty branch list implies that a
\* ticket is selected; in particular the branch list emptied by Left on the
\* focused ticket list stays empty as long as no ticket is selected.
C30_BranchesImplyTicket ==
    state.branches.items # <<>> =>
        state.issues.sel # None /\ InRange(state.issues)

\* C31: the transitions the list holds were fetched for the ticket that is
\* selected: a TransitionsFetched event is applied only while the ticket it
\* was fetched for is the selected one.
C31_TransitionsOfSelectedTicket ==
    (ActorHasStepped /\ last.ev.type = "TransitionsFetched"
        /\ state.transitions.items # <<>>) =>
        SelectedKeyIs(state, last.ev.key)

\* C32: once no ticket fetch is pending and no IssuesUpdated event waits on
\* the bus, the ticket list is the result of a fetch made with the current
\* config: the IssuesUpdated event applied last came from a task whose config
\* is the State's.
C32_TicketsOfCurrentConfig ==
    (/\ ActorHasStepped
     /\ last.ev.type = "IssuesUpdated"
     /\ \A t \in tasks : t.kind # "fetch_tickets"
     /\ \A i \in 1..Len(bus) : bus[i].type # "IssuesUpdated") =>
        \E e \in ended :
            /\ e.id = last.ev.id
            /\ e.kind = "fetch_tickets"
            /\ e.config = state.config

\* C33: once the actor has stopped on Quit it stays stopped, applies no
\* event (those left on the bus are dropped, those sent later are lost),
\* changes no State and publishes no snapshot, none for the terminating key
\* either; the renderer draws every snapshot published before and its loop
\* then ends.
StoppedActorStep ==
    /\ pc = "done" =>
          /\ pc' = "done"
          /\ applied' = applied
          /\ state' = state
          /\ pubs' = pubs
          /\ bus' = <<>>
          /\ \/ chan' = chan
             \/ chan # <<>> /\ chan' = Tail(chan)
    /\ (pc # "done" /\ pc' = "done") =>
          /\ pubs' = pubs
          /\ chan' = chan
          /\ bus' = <<>>

C33_QuitSilencesActorAndEndsRenderer ==
    /\ [][StoppedActorStep]_vars
    /\ (pc = "done") ~> (RenderLoopEnded /\ Len(drawn) = pubs)

C33_Witness ==
    /\ pc = "done"
    /\ RenderLoopEnded
    /\ Len(drawn) = pubs
    /\ last.ev.code = CharKey("q")
    /\ committed > Len(applied)
    /\ tasks # {}

\* C34: while the actor has not stopped and the renderer keeps taking
\* snapshots, every event committed to the bus is eventually applied and its
\* snapshot published, however many events wait on the bus and however full
\* the snapshot channel is: again and again the actor has either stopped or
\* applied every event committed so far and published one snapshot for each
\* (and the priming one), so no event committed waits for ever.
AllProcessedAndPublished ==
    /\ Len(applied) = committed
    /\ pubs = committed + 1

C34_EveryEventProcessedAndPublished ==
    []<>(~ActorLives \/ AllProcessedAndPublished)

C34_Witness ==
    /\ pc = "recv"
    /\ committed > SnapshotCapacity
    /\ AllProcessedAndPublished
    /\ Len(chan) = SnapshotCapacity
    /\ drawn # <<>>

\* C35: whenever the ticket list is focused the branch cursor is absent, and
\* the branch cursor changes only in a key step of IssuesList mode: Enter or
\* Right that moves the focus to the branch list, Up or Down under branch
\* focus, or the Left that returns the focus and clears it; no completion
\* event changes it.
BranchCursorStep ==
    state'.branches.sel # state.branches.sel =>
        /\ last'.ev.type = "KeyEvent"
        /\ last'.pre = state
        /\ state.input_mode = "IssuesList"
        /\ \/ /\ last'.ev.code \in {Key("Enter"), Key("Right")}
              /\ state.issues_focused
              /\ ~state'.issues_focused
              /\ state'.branches.sel # None
           \/ /\ last'.ev.code \in {Key("Up"), Key("Down")}
              /\ ~state.issues_focused
              /\ ~state'.issues_focused
           \/ /\ last'.ev.code = Key("Left")
              /\ ~state.issues_focused
              /\ state'.issues_focused
              /\ state'.branches.sel = None

C35_TicketFocusMeansNoBranchCursor ==
    /\ [](state.issues_focused => state.branches.sel = None)
    /\ [][BranchCursorStep]_vars

C35_Witness ==
    /\ ArrowStep("Left", FALSE)
    /\ last.pre.branches.sel # None
    /\ state.issues_focused
    /\ state.branches.sel = None
    /\ Len(state.branches.items) > 1

\* C36: in every reachable state the branch list is empty or its last entry
\* is the sentinel "Create New" and no other entry has that name.
SentinelCount(items) ==
    Cardinality({i \in 1..Len(items) : items[i] = Sentinel})

C36_EmptyOrOneSentinelLast ==
    state.branches.items # <<>> =>
        /\ state.branches.items[Len(state.branches.items)] = Sentinel
        /\ SentinelCount(state.branches.items) = 1

C36_Witness ==
    /\ last.ev.type = "BranchesUpdated"
    /\ last.pre.branches.items # <<>>
    /\ branchesFrom.prevId # 0
    /\ Len(state.branches.items) > 1
    /\ C36_EmptyOrOneSentinelLast

\* C37: an Enter of EditingDefaultProject mode whose config save fails has no
\* effect on the config: the mode stays EditingDefaultProject, no ticket
\* fetch is started, the default project key in memory is the one before
\* Enter, and the text buffer holds the error text.
C37_FailedSaveLeavesConfig ==
    (KeyStep(Key("Enter"), "EditingDefaultProject") /\ last.env.save = "err") =>
        /\ state.input_mode = "EditingDefaultProject"
        /\ last.spawn = {}
        /\ disk = last.pre.config
        /\ state.input = SaveErrorText
        /\ state.config.default_project_key =
               last.pre.config.default_project_key

\* C38: two presses of i (likewise of m) in IssuesList mode, processed one
\* after the other, restore the config to its value before the first press
\* and start two ticket fetches: the first with the flag negated, the second
\* with the original flag.
DoublePress(c) ==
    (/\ ToggleStep(c)
     /\ last'.ev.n # last.ev.n
     /\ last'.ev.type = "KeyEvent"
     /\ last'.ev.code = CharKey(c)
     /\ last'.pre.input_mode = "IssuesList") =>
        /\ state'.config = last.pre.config
        /\ Cardinality(last.spawn) = 1
        /\ Cardinality(last'.spawn) = 1
        /\ last.spawn \cap last'.spawn = {}
        /\ \A t \in last.spawn :
              /\ t.kind = "fetch_tickets"
              /\ t.st.config = Negated(last.pre.config, c)
              /\ QueryOf(t) = current_issues_query(Negated(last.pre.config, c))
        /\ \A t \in last'.spawn :
              /\ t.kind = "fetch_tickets"
              /\ t.st.config = last.pre.config
              /\ QueryOf(t) = current_issues_query(last.pre.config)

C38_DoubleToggleRestores ==
    [][DoublePress("i") /\ DoublePress("m")]_vars

C38_Witness ==
    /\ ToggleStep("i")
    /\ state.issues.items # <<>>
    /\ \E t2 \in last.spawn : \E t1 \in tasks : \E e \in ended :
          /\ t1.id + 1 = t2.id
          /\ e.id + 1 = t1.id
          /\ e.config = state.config
          /\ t1.st.config = Negated(state.config, "i")
          /\ t1.st.config = last.pre.config
          /\ t2.st.config = state.config

\* C39: in UpdateIssueStatus mode Enter with a transition selected starts
\* exactly one apply operation, for the selected ticket and that transition,
\* and leaves the State unchanged; Enter with no transition selected starts
\* no apply operation; every Enter's task is a new one, so n presses before
\* any completion start n operations; and the mode leaves UpdateIssueStatus
\* only in the step of a TransitionExecuted event or of key Esc.
ApplyOperation(t) ==
    /\ t.kind = "do_selected_transition"
    /\ InRange(t.st.transitions)
    /\ IsSome(selected_issue_key(t.st))

EnterApplies ==
    KeyStep(Key("Enter"), "UpdateIssueStatus") =>
        /\ state = last.pre
        /\ IF InRange(last.pre.transitions)
           THEN /\ Cardinality(last.spawn) = 1
                /\ \A t \in last.spawn :
                      /\ ApplyOperation(t)
                      /\ selected_issue_key(t.st) = selected_issue_key(last.pre)
                      /\ ItemAt(t.st.transitions) = ItemAt(last.pre.transitions)
           ELSE \A t \in last.spawn : ~ApplyOperation(t)

ApplyModeStep ==
    /\ (state.input_mode = "UpdateIssueStatus"
            /\ state'.input_mode # "UpdateIssueStatus") =>
          \/ last'.ev.type = "TransitionExecuted"
          \/ last'.ev.type = "KeyEvent" /\ last'.ev.code = Key("Esc")
    /\ (/\ last'.ev.n # last.ev.n
        /\ last'.ev.type = "KeyEvent"
        /\ last'.ev.code = Key("Enter")
        /\ state.input_mode = "UpdateIssueStatus") =>
          /\ last'.spawn \cap tasks = {}
          /\ tasks' = tasks \cup last'.spawn
          /\ \A e \in ended : \A t \in last'.spawn : e.id # t.id

C39_EnterAppliesSelectedTransition ==
    /\ []EnterApplies
    /\ [][ApplyModeStep]_vars

====
